---- MODULE Spec2Model ----
(***************************************************************************)
(* Enrichment orchestration of THF_2025: one enrichment attempt for one    *)
(* person, run by one of the four pipeline variants of the repository      *)
(*   "improved"  ImprovedEnrichmentService.enrich_person_complete          *)
(*   "enhanced"  EnhancedApifyEnrichmentService.comprehensive_enrich_person*)
(*   "webhook"   WebhookEnrichmentProcessor.process_webhook                *)
(*   "apify"     ApifyEnrichmentService.enrich_person_by_id                *)
(* against the Notion stores (People DB, Enrichment DB) and the Apify job  *)
(* API, whose answers are the nondeterministic inputs of the actions.      *)
(***************************************************************************)
EXTENDS Integers, Sequences, FiniteSets, TLC

VARIABLES
    svc,          \* the pipeline variant that runs the attempt
    person,       \* attributes of the person (extract_person_data / webhook payload)
    listed,       \* the People DB listing contains the person id
    pageStatus,   \* Status of the incoming webhook page
    store,        \* Enrichment DB: the records stored for this person
    link,         \* People DB "Enrichment Record" relation: index in store, 0 = unset
    peopleStatus, \* People DB "Status" of the person
    run,          \* the JobRun owned by the poll loop, if any
    orphans,      \* providers whose actor run was created and left unfinished
    abandoned,    \* providers whose poll loop ended on its max wait
    succeedsAt,   \* course of the actor runs, where it is given: the time after the
                  \* start of a poll loop at which the run reaches SUCCEEDED
    pc,           \* position of the attempt
    phase,        \* index of the provider pipeline being run
    elapsed,      \* time.time() - start_time of the current poll loop
    results,      \* return value of _get_actor_results
    existing,     \* index in store of the record found by the gate, 0 = None
    gate,         \* decision of the staleness gate
    rec,          \* the enrichment record / result object being built
    outcome,      \* how the attempt ended for its caller
    calls,        \* outbound calls issued by the attempt
    other,        \* a second invocation of enrich_person_complete for the person
    peopleDb,     \* People DB: number of listing pages, page that holds the person
    cache,        \* THFIntelligence._cache: {} or {number of pages in 'all_people'}
    all_people    \* pages gathered so far by the loop of get_all_people

vars == <<svc, person, listed, pageStatus, store, link, peopleStatus, run, orphans,
          abandoned, succeedsAt, pc, phase, elapsed, results, existing, gate, rec, outcome, calls, other,
          peopleDb, cache, all_people>>

----------------------------------------------------------------------------
(* Program constants *)

ImprovedMaxWait == 180
EnhancedMaxWait == 300
WebhookMaxWait == 180
ApifyMaxWait == 300
ImprovedSleep == 15
EnhancedSleep == 15
WebhookSleep == 10
ApifySleep == 10
StaleDays == 30
HoursPerDay == 24

(* Bounds of the model *)

RtFast == 1          \* a short HTTP round trip, seconds
RtSlow == 100        \* a long HTTP round trip, seconds
MaxAgeHours == 1080  \* oldest existing record considered (45 days)

----------------------------------------------------------------------------
Services == {"improved", "enhanced", "webhook", "apify"}


Phases(s) ==
    IF s = "enhanced" THEN <<"apollo", "linkedin", "connections">>
                      ELSE <<"apollo", "linkedin">>

MaxWaitTime(s) ==
    CASE s = "improved" -> ImprovedMaxWait
      [] s = "enhanced" -> EnhancedMaxWait
      [] s = "webhook"  -> WebhookMaxWait
      [] OTHER          -> ApifyMaxWait

SleepSeconds(s) ==
    CASE s = "improved" -> ImprovedSleep
      [] s = "enhanced" -> EnhancedSleep
      [] s = "webhook"  -> WebhookSleep
      [] OTHER          -> ApifySleep

RoundTrips == {RtFast, RtSlow}

----------------------------------------------------------------------------
(* Raw provider results.  A raw result is one item of an actor's dataset:  *)
(* keys = the raw keys that carry a truthy value, nexp = length of its     *)
(* 'experience' list, conn = its 'connections' value (-1: key absent),     *)
(* news = its 'news_mentions_count'.                                       *)

RawApollo4 ==
    [keys |-> {"email", "phone_number", "title", "organization_name"},
     nexp |-> 0, conn |-> -1, news |-> 0]

RawApolloFull ==
    [keys |-> {"email", "phone_number", "title", "organization_name", "city",
               "linkedin_url", "industry", "intent_signals",
               "organization_technologies", "email_verified", "phone_verified"},
     nexp |-> 0, conn |-> -1, news |-> 2]

RawApolloBare == [keys |-> {"id"}, nexp |-> 0, conn |-> -1, news |-> 0]

RawLinkedInFull ==
    [keys |-> {"headline", "summary", "location", "experience", "education",
               "skills", "connections"},
     nexp |-> 2, conn |-> 150, news |-> 0]

RawLinkedIn3 ==
    [keys |-> {"headline", "summary", "experience"},
     nexp |-> 1, conn |-> -1, news |-> 0]

RawEmptyItem == [keys |-> {}, nexp |-> 0, conn |-> -1, news |-> 0]

\* an item of the connections actor: 'connections' is a list of conn entries
RawConnections25 == [keys |-> {"connections"}, nexp |-> 0, conn |-> 25, news |-> 0]

RawSamples(p) ==
    CASE p = "apollo" -> {RawApollo4, RawApolloFull, RawApolloBare}
      [] p = "linkedin" -> {RawLinkedInFull, RawLinkedIn3, RawEmptyItem}
      [] OTHER -> {RawConnections25, RawEmptyItem}

\* an item that follows the first one in a dataset of provider p
LaterItem(p) ==
    CASE p = "apollo" -> RawApollo4
      [] p = "linkedin" -> RawLinkedIn3
      [] OTHER -> RawConnections25

\* the datasets an actor run of provider p can deliver
ResultLists(p) ==
    {<<>>} \cup {<<r>> : r \in RawSamples(p)} \cup {<<r, LaterItem(p)>> : r \in RawSamples(p)}

\* variant of Selected that takes the last item
SelectedLast(items) == items[Len(items)]

\* best_match = results[0]
Selected(items) == items[1]

\* a return value of _get_actor_results: None, or the dataset items
NoResults == [returned |-> "none", items |-> <<>>]
Dataset(items) == [returned |-> "list", items |-> items]

\* results and len(results) > 0
HasItems(res) == res.returned = "list" /\ Len(res.items) > 0

(* Normalized provider data: kind "none" is None, "empty" is {} or [],     *)
(* "dict" a non-empty mapping; filled = canonical keys with a truthy value *)
NoneData == [kind |-> "none", filled |-> {}, nexp |-> 0, conn |-> -1, news |-> 0]
EmptyData == [kind |-> "empty", filled |-> {}, nexp |-> 0, conn |-> -1, news |-> 0]

Truthy(d) == d.kind = "dict"

\* canonical key <- raw key, as read by best_match.get(...)
ImprovedApolloMap ==
    {<<"email", "email">>, <<"personal_email", "personal_email">>,
     <<"phone", "phone_number">>, <<"mobile", "mobile_phone_number">>,
     <<"title", "title">>, <<"company", "organization_name">>,
     <<"industry", "industry">>, <<"city", "city">>, <<"state", "state">>,
     <<"country", "country">>, <<"linkedin_url", "linkedin_url">>,
     <<"company_size", "organization_num_employees">>,
     <<"department", "department">>, <<"seniority", "seniority">>}

EnhancedApolloMap ==
    ImprovedApolloMap \cup
    {<<"email_verified", "email_verified">>, <<"phone_verified", "phone_verified">>,
     <<"technographics", "organization_technologies">>,
     <<"intent_data", "intent_signals">>}

WebhookApolloMap ==
    {<<"email", "email">>, <<"phone", "phone_number">>, <<"title", "title">>,
     <<"company", "organization_name">>, <<"industry", "industry">>,
     <<"city", "city">>, <<"state", "state">>, <<"linkedin_url", "linkedin_url">>,
     <<"intent_data", "intent_signals">>,
     <<"technographics", "organization_technologies">>}

EnhancedLinkedInMap ==
    {<<"headline", "headline">>, <<"summary", "summary">>,
     <<"location", "location">>, <<"industry", "industry">>,
     <<"connections", "connections">>, <<"followers", "followers">>,
     <<"current_position", "currentPosition">>,
     <<"current_company", "currentCompany">>, <<"top_skills", "skills">>}

Mapped(map, raw) == {m[1] : m \in {x \in map : x[2] \in raw.keys}}

\* _process_apollo_results of the three services that normalize
ProcessApollo(s, raw) ==
    CASE s = "improved" ->
           [kind |-> "dict", filled |-> {"raw_data"} \cup Mapped(ImprovedApolloMap, raw),
            nexp |-> 0, conn |-> -1, news |-> 0]
      [] s = "enhanced" ->
           [kind |-> "dict",
            filled |-> {"raw_data", "email_source", "phone_source"}
                       \cup Mapped(EnhancedApolloMap, raw)
                       \cup (IF raw.news > 0 THEN {"news_mentions"} ELSE {}),
            nexp |-> 0, conn |-> -1, news |-> raw.news]
      [] OTHER ->
           [kind |-> "dict", filled |-> {"raw_data"} \cup Mapped(WebhookApolloMap, raw),
            nexp |-> 0, conn |-> -1, news |-> 0]

\* the profile data kept from the first dataset item
ProcessLinkedIn(s, raw) ==
    CASE s = "improved" ->
           [kind |-> IF raw.keys = {} THEN "empty" ELSE "dict",
            filled |-> raw.keys, nexp |-> raw.nexp, conn |-> raw.conn, news |-> 0]
      [] s = "enhanced" ->
           [kind |-> "dict",
            filled |-> {"raw_data", "experience", "education", "certifications",
                        "post_frequency", "influencer_score"}
                       \cup Mapped(EnhancedLinkedInMap, raw),
            nexp |-> raw.nexp, conn |-> raw.conn, news |-> 0]
      [] OTHER ->
           [kind |-> "dict",
            filled |-> {"raw_data", "experience", "education", "connections_data"}
                       \cup (raw.keys \cap {"headline", "summary", "location",
                                            "connections", "skills"}),
            nexp |-> raw.nexp, conn |-> raw.conn, news |-> 0]

\* the value the pipeline of provider p assigns when it ends without a result
NoResult(s) == IF s = "enhanced" THEN EmptyData ELSE NoneData

\* how the raw dataset is kept by ApifyEnrichmentService (no normalization)
RawList(res) ==
    IF res = <<>> THEN EmptyData
    ELSE [kind |-> "dict", filled |-> Selected(res).keys, nexp |-> Selected(res).nexp,
          conn |-> Selected(res).conn, news |-> Selected(res).news]

----------------------------------------------------------------------------
(* The enrichment record (EnrichmentRecord, EnhancedEnrichmentRecord, the  *)
(* webhook's result dict, EnrichmentResult) in one shape; connections is   *)
(* the number of NetworkConnection objects, -1 for None.                   *)

NewRecord(status) ==
    [apollo_data |-> NoneData, linkedin_data |-> NoneData,
     connections |-> -1, network |-> FALSE, sources |-> <<>>,
     status |-> status, confidence |-> "Medium", score |-> 0,
     errors |-> <<>>, apollo_success |-> FALSE, linkedin_success |-> FALSE,
     storage_success |-> FALSE, merged |-> FALSE]

ImprovedApolloChecklist == {"email", "phone", "title", "company", "city", "linkedin_url"}
ImprovedLinkedInChecklist ==
    {"headline", "summary", "location", "experience", "education", "skills"}
EnhancedApolloChecklist ==
    {"email", "phone", "title", "company", "industry", "intent_data", "technographics"}
EnhancedLinkedInChecklist == {"headline", "summary", "experience", "education", "skills"}

\* variant of Percent that rounds to the nearest integer
PercentRounded(filled, total) ==
    IF total > 0 THEN (2 * filled * 100 + total) \div (2 * total) ELSE 0

\* int((filled_fields / total_fields) * 100) if total_fields > 0 else 0
Percent(filled, total) == IF total > 0 THEN (filled * 100) \div total ELSE 0

\* variant of _calculate_completeness that counts the profile checklist
\* whether or not there is profile data
CompletenessOverBothProviders(r) ==
    LET at == IF Truthy(r.apollo_data) THEN Cardinality(ImprovedApolloChecklist) ELSE 0
        af == IF Truthy(r.apollo_data)
              THEN Cardinality(ImprovedApolloChecklist \cap r.apollo_data.filled) ELSE 0
        lt == Cardinality(ImprovedLinkedInChecklist)
        lf == IF Truthy(r.linkedin_data)
              THEN Cardinality(ImprovedLinkedInChecklist \cap r.linkedin_data.filled) ELSE 0
    IN  Percent(af + lf, at + lt)

\* variant of _calculate_completeness that counts the contact checklist
\* whether or not there is contact data
CompletenessCountsContact(r) ==
    LET at == Cardinality(ImprovedApolloChecklist)
        af == IF Truthy(r.apollo_data)
              THEN Cardinality(ImprovedApolloChecklist \cap r.apollo_data.filled) ELSE 0
        lt == IF Truthy(r.linkedin_data) THEN Cardinality(ImprovedLinkedInChecklist) ELSE 0
        lf == IF Truthy(r.linkedin_data)
              THEN Cardinality(ImprovedLinkedInChecklist \cap r.linkedin_data.filled) ELSE 0
    IN  Percent(af + lf, at + lt)

_calculate_completeness(r) ==
    LET at == IF Truthy(r.apollo_data) THEN Cardinality(ImprovedApolloChecklist) ELSE 0
        af == IF Truthy(r.apollo_data)
              THEN Cardinality(ImprovedApolloChecklist \cap r.apollo_data.filled) ELSE 0
        lt == IF Truthy(r.linkedin_data) THEN Cardinality(ImprovedLinkedInChecklist) ELSE 0
        lf == IF Truthy(r.linkedin_data)
              THEN Cardinality(ImprovedLinkedInChecklist \cap r.linkedin_data.filled) ELSE 0
    IN  Percent(af + lf, at + lt)

_calculate_enhanced_completeness(r) ==
    LET at == IF Truthy(r.apollo_data) THEN Cardinality(EnhancedApolloChecklist) ELSE 0
        af == IF Truthy(r.apollo_data)
              THEN Cardinality(EnhancedApolloChecklist \cap r.apollo_data.filled) ELSE 0
        lt == IF Truthy(r.linkedin_data) THEN Cardinality(EnhancedLinkedInChecklist) ELSE 0
        lf == IF Truthy(r.linkedin_data)
              THEN Cardinality(EnhancedLinkedInChecklist \cap r.linkedin_data.filled) ELSE 0
        nt == IF r.connections > 0 THEN 3 ELSE 0
        nf == IF r.connections > 0 THEN 1 + (IF r.network THEN 2 ELSE 0) ELSE 0
    IN  Percent(af + lf + nf, at + lt + nt)

Pts(cond, n) == IF cond THEN n ELSE 0

ImprovedPoints(r) ==
      Pts(Truthy(r.apollo_data) /\ "email" \in r.apollo_data.filled, 30)
    + Pts(Truthy(r.apollo_data) /\ "phone" \in r.apollo_data.filled, 20)
    + Pts(Truthy(r.apollo_data) /\ "company" \in r.apollo_data.filled, 10)
    + Pts(Truthy(r.linkedin_data) /\ "headline" \in r.linkedin_data.filled, 15)
    + Pts(Truthy(r.linkedin_data) /\ "experience" \in r.linkedin_data.filled, 15)
    + Pts(Truthy(r.linkedin_data) /\ "education" \in r.linkedin_data.filled, 10)

\* variant of _assess_data_confidence with the Medium test turned around
AssessWithMediumBelow(r) ==
    IF ImprovedPoints(r) >= 70 THEN "High"
    ELSE IF ImprovedPoints(r) <= 40 THEN "Medium" ELSE "Low"

_assess_data_confidence(r) ==
    IF ImprovedPoints(r) >= 70 THEN "High"
    ELSE IF ImprovedPoints(r) >= 40 THEN "Medium" ELSE "Low"

EnhancedPoints(r) ==
      Pts(Truthy(r.apollo_data) /\ "email_verified" \in r.apollo_data.filled, 25)
    + Pts(Truthy(r.apollo_data) /\ "phone_verified" \in r.apollo_data.filled, 20)
    + Pts(Truthy(r.apollo_data) /\ "intent_data" \in r.apollo_data.filled, 10)
    + Pts(Truthy(r.apollo_data) /\ r.apollo_data.news > 0, 5)
    + Pts(Truthy(r.linkedin_data) /\ r.linkedin_data.nexp >= 2, 15)
    + Pts(Truthy(r.linkedin_data) /\ r.linkedin_data.conn >= 100, 10)
    + Pts(r.connections >= 20, 15)

\* variant of _assess_enhanced_confidence with strict comparisons
AssessEnhancedStrictlyAbove(r) ==
    IF EnhancedPoints(r) > 80 THEN "High"
    ELSE IF EnhancedPoints(r) > 50 THEN "Medium" ELSE "Low"

_assess_enhanced_confidence(r) ==
    IF EnhancedPoints(r) >= 80 THEN "High"
    ELSE IF EnhancedPoints(r) >= 50 THEN "Medium" ELSE "Low"

\* record.linkedin_data.get('connections', 0) >= 100 compares None with an
\* int when the profile carries no 'connections' value: TypeError
ConfidenceRaises(r) == Truthy(r.linkedin_data) /\ r.linkedin_data.conn < 0

\* step 7 of enrich_person_complete, _determine_enrichment_status
_determine_enrichment_status(r) ==
    IF r.errors # <<>>
    THEN IF Truthy(r.apollo_data) \/ Truthy(r.linkedin_data) THEN "Partial" ELSE "Failed"
    ELSE "Completed"

----------------------------------------------------------------------------
(* Persons.  A person is the set of attributes the pipelines branch on;    *)
(* name is the number of space-separated tokens of the name (0: no name).  *)

Persons ==
    [email : BOOLEAN, employer : BOOLEAN, linkedin : BOOLEAN, name : {0, 2},
     position : BOOLEAN, city : BOOLEAN, state : BOOLEAN]

\* the persons tried with service s: attributes on which no branch of s
\* depends are held fixed
\* (extract_person_data delivers no 'city' key, so the city is never set)
PersonsOf(s) ==
    CASE s = "enhanced" ->
           {q \in Persons : q.name = 2 /\ ~q.position /\ ~q.city
                            /\ (q.state => (q.email \/ q.employer))}
      [] s = "apify" ->
           {q \in Persons : ~q.position /\ ~q.city /\ ~q.state}
      [] OTHER ->
           {q \in Persons : q.name = 2 /\ ~q.position /\ ~q.city /\ ~q.state}

\* person_data.get('primary_email') or person_data.get('employer') /
\* person_data.get('linkedin')
Qualifies(q, p) == IF p = "apollo" THEN q.email \/ q.employer ELSE q.linkedin

\* search_criteria of _prepare_apollo_search; None when it is empty
_prepare_apollo_search(q) ==
      (IF q.name >= 2 THEN {"person_name"} ELSE {})
 \cup (IF q.employer THEN {"organization_names"} ELSE {})
 \cup (IF q.position THEN {"person_titles"} ELSE {})
 \cup (IF q.email THEN {"email"} ELSE {})

\* search_params of _prepare_apollo_input; None when it is empty
_prepare_apollo_input(q) ==
      (IF q.name >= 1 THEN {"first_name"} ELSE {})
 \cup (IF q.name >= 2 THEN {"last_name"} ELSE {})
 \cup (IF q.employer THEN {"organization_names"} ELSE {})
 \cup (IF q.position THEN {"person_titles"} ELSE {})

\* _build_comprehensive_apollo_search appends the state to
\* criteria['person_locations'], which exists only when the city is set
BuildRaises(s, q, p) == s = "enhanced" /\ p = "apollo" /\ q.state /\ ~q.city

\* the request builder of provider p returns None
InputIsNone(s, q, p) ==
    /\ p = "apollo"
    /\ \/ s = "improved" /\ _prepare_apollo_search(q) = {}
       \/ s = "apify" /\ _prepare_apollo_input(q) = {}

----------------------------------------------------------------------------
(* Enrichment DB records of the person.  ts is the state of the record's   *)
(* 'Last Updated' value, age its age in hours when the attempt runs.       *)

StoredRecord(status, confidence, score, ts, age) ==
    [status |-> status, confidence |-> confidence, score |-> score,
     ts |-> ts, age |-> age, fresh |-> FALSE]

ExistingRecords ==
    { StoredRecord("Completed", "High", 66, "ok", 10 * HoursPerDay),
      StoredRecord("Failed", "Medium", 0, "ok", StaleDays * HoursPerDay),
      StoredRecord("Partial", "Low", 50, "ok", StaleDays * HoursPerDay + 12),
      StoredRecord("Completed", "Medium", 33, "ok", (StaleDays + 1) * HoursPerDay),
      StoredRecord("Completed", "High", 100, "ok", MaxAgeHours),
      StoredRecord("Completed", "High", 66, "missing", 10 * HoursPerDay),
      StoredRecord("Partial", "Medium", 50, "unparsable", 10 * HoursPerDay) }

\* (datetime.now().astimezone() - last_update).days
DaysSince(r) == r.age \div HoursPerDay

\* variant of the gate that re-runs from the 30th day on
ShouldUpdateFromThirtiethDay(r) ==
    IF r.ts = "missing" THEN TRUE
    ELSE IF r.ts = "unparsable" THEN TRUE
    ELSE DaysSince(r) >= StaleDays

_should_update_enrichment(r) ==
    IF r.ts = "missing" THEN TRUE
    ELSE IF r.ts = "unparsable" THEN TRUE
    ELSE DaysSince(r) > StaleDays

\* the EnrichmentRecord rebuilt from a stored page: name, id and status only
_extract_enrichment_record(r) == NewRecord(r.status)

\* JobRun: {provider, status}; the handle and the submission time carry
\* no decision of the pipelines
\* checkFailed: the except clause of the poll loop was entered for the run
NoRun == [provider |-> "none", state |-> "none", checkFailed |-> FALSE]
JobRun(p, st) == [provider |-> p, state |-> st, checkFailed |-> FALSE]

\* queried: the providers for whose run a status request was sent
\* surplus: a normalizer was handed a dataset of more than one item
ZeroCalls ==
    [submit |-> [p \in {"apollo", "linkedin", "connections"} |-> 0],
     queried |-> {}, create |-> 0, link |-> 0, linked |-> 0, patch |-> 0,
     surplus |-> FALSE]

PageStatuses == {"Working", "Completed", "Failed", "Not Started", "none"}

\* a People DB whose listing is one page, which holds the person
OnePage == [pages |-> 1, home |-> 1]

\* the second invocation before it is started: page is the index in store of
\* the page it created (0: none), run the provider of its JobRun in flight,
\* after tells that the first invocation had returned when it started, raced
\* that it passed the gate while the first had passed it and not yet stored,
\* linked that its relation write was accepted
OtherIdle ==
    [pc |-> "idle", phase |-> 1, gate |-> "pending", existing |-> 0, run |-> "none",
     page |-> 0, after |-> FALSE, raced |-> FALSE, linked |-> FALSE]

Init ==
    /\ svc \in Services
    /\ person \in PersonsOf(svc)
    /\ listed \in (IF svc = "webhook" THEN {TRUE} ELSE BOOLEAN)
    /\ pageStatus \in (IF svc = "webhook" THEN PageStatuses ELSE {"Working"})
    /\ store \in (IF svc = "improved"
                  THEN {<<>>} \cup {<<r>> : r \in ExistingRecords}
                  ELSE {<<>>})
    /\ link = Len(store)
    /\ peopleStatus = pageStatus
    /\ run = NoRun
    /\ orphans = {}
    /\ abandoned = {}
    /\ peopleDb = OnePage
    /\ cache = {}
    /\ all_people = 0
    /\ succeedsAt = {}
    /\ pc = "start"
    /\ phase = 1
    /\ elapsed = 0
    /\ results = NoResults
    /\ existing = 0
    /\ gate = "pending"
    /\ rec = NewRecord("Not Started")
    /\ outcome = "running"
    /\ calls = ZeroCalls
    /\ other = OtherIdle

----------------------------------------------------------------------------
(* Helpers of the actions *)

Provider == Phases(svc)[phase]

AfterPhases(s) ==
    CASE s \in {"improved", "enhanced"} -> "score"
      [] s = "webhook" -> "store"
      [] OTHER -> "merge"

ErrMsg(s, p) ==
    CASE s = "improved" /\ p = "apollo" -> "Apollo enrichment failed"
      [] s = "improved" /\ p = "linkedin" -> "LinkedIn enrichment failed"
      [] s = "enhanced" /\ p = "apollo" -> "Apollo enrichment failed"
      [] s = "enhanced" /\ p = "linkedin" -> "LinkedIn profile enrichment failed"
      [] s = "enhanced" /\ p = "connections" -> "LinkedIn network analysis failed"
      [] s = "webhook" /\ p = "apollo" -> "Apollo error"
      [] s = "webhook" /\ p = "linkedin" -> "LinkedIn error"
      [] OTHER -> "Enrichment failed"

\* number of NetworkConnection objects built by _process_connections_results
RECURSIVE ConnectionCount(_)
ConnectionCount(items) ==
    IF items = <<>> THEN 0
    ELSE (IF "connections" \in Head(items).keys THEN Head(items).conn ELSE 0)
         + ConnectionCount(Tail(items))

SourceLabel(p) ==
    CASE p = "apollo" -> "Apollo"
      [] p = "linkedin" -> "LinkedIn Profile"
      [] OTHER -> "LinkedIn Network"

\* the record after the pipeline of provider p returned normally with the
\* poll result res (the assignment in the try block of the phase)
Assigned(r, s, p, res) ==
    CASE s = "improved" /\ p = "apollo" ->
           [r EXCEPT !.apollo_data =
               IF HasItems(res) THEN ProcessApollo(s, Selected(res.items)) ELSE NoneData]
      [] s = "improved" /\ p = "linkedin" ->
           [r EXCEPT !.linkedin_data =
               IF HasItems(res) THEN ProcessLinkedIn(s, Selected(res.items)) ELSE NoneData]
      [] s = "enhanced" /\ p = "apollo" ->
           [r EXCEPT !.apollo_data =
               IF HasItems(res) THEN ProcessApollo(s, Selected(res.items)) ELSE EmptyData,
                     !.sources = Append(@, SourceLabel(p))]
      [] s = "enhanced" /\ p = "linkedin" ->
           [r EXCEPT !.linkedin_data =
               IF HasItems(res) THEN ProcessLinkedIn(s, Selected(res.items)) ELSE EmptyData,
                     !.sources = Append(@, SourceLabel(p))]
      [] s = "enhanced" /\ p = "connections" ->
           [r EXCEPT !.connections = IF HasItems(res) THEN ConnectionCount(res.items) ELSE 0,
                     !.network = HasItems(res) /\ ConnectionCount(res.items) > 0,
                     !.sources = Append(@, SourceLabel(p))]
      [] s = "webhook" /\ p = "apollo" ->
           IF HasItems(res)
           THEN [r EXCEPT !.apollo_data = ProcessApollo(s, Selected(res.items)),
                          !.apollo_success = TRUE]
           ELSE r
      [] s = "webhook" /\ p = "linkedin" ->
           IF HasItems(res)
           THEN [r EXCEPT !.linkedin_data = ProcessLinkedIn(s, Selected(res.items)),
                          !.linkedin_success = TRUE]
           ELSE r
      [] s = "apify" /\ p = "apollo" ->
           [r EXCEPT !.apollo_data =
               IF res.returned = "list" THEN RawList(res.items) ELSE NoneData]
      [] OTHER ->
           [r EXCEPT !.linkedin_data =
               IF res.returned = "list" THEN RawList(res.items) ELSE NoneData]

\* variant of Advance that goes on with what follows the provider phases as
\* soon as one phase is over
AdvanceAfterFirst ==
    /\ phase' = phase + 1
    /\ pc' = AfterPhases(svc)

\* the phase is over: go on with the next provider, or with what follows
Advance ==
    /\ phase' = phase + 1
    /\ pc' = IF phase < Len(Phases(svc)) THEN "dispatch" ELSE AfterPhases(svc)

\* an exception left the pipeline of provider p: the except clause of the
\* phase records it; ApifyEnrichmentService has one try block around both
\* providers and the merge, so its except clause ends enrich_person
Raised(p) ==
    /\ rec' = [rec EXCEPT !.errors = Append(@, ErrMsg(svc, p))]
    /\ IF svc = "apify"
       THEN pc' = "update" /\ phase' = phase
       ELSE Advance


----------------------------------------------------------------------------
(* Actions *)

\* variant of ResolvePerson that records the missing person and goes on
ResolvePersonWithoutReturn ==
    /\ pc = "start"
    /\ svc # "webhook"
    /\ rec' = IF ~listed
              THEN [NewRecord("Not Started") EXCEPT !.errors = <<"Person not found">>]
              ELSE NewRecord(IF svc = "apify" THEN "Not Started" ELSE "In Progress")
    /\ pc' = IF svc = "improved" THEN "gate" ELSE "dispatch"
    /\ UNCHANGED <<peopleDb, cache, all_people, succeedsAt, abandoned, other, svc, person, listed, pageStatus, store, link, peopleStatus, run, orphans,
                   phase, elapsed, results, existing, gate, calls, outcome>>

\* thf_intel.get_all_people() and the search of person_id in the listing
ResolvePerson ==
    /\ pc = "start"
    /\ svc # "webhook"
    /\ IF ~listed
       THEN /\ rec' = [NewRecord("Not Started") EXCEPT !.errors = <<"Person not found">>]
            /\ pc' = "done"
            /\ outcome' = "returned"
       ELSE /\ rec' = NewRecord(IF svc = "apify" THEN "Not Started" ELSE "In Progress")
            /\ pc' = IF svc = "improved" THEN "gate" ELSE "dispatch"
            /\ outcome' = outcome
    /\ UNCHANGED <<peopleDb, cache, all_people, succeedsAt, abandoned, other, svc, person, listed, pageStatus, store, link, peopleStatus, run, orphans,
                   phase, elapsed, results, existing, gate, calls>>

\* variant of ExtractPerson that also accepts a page that is "Not Started"
ExtractPersonUnlessFinished ==
    /\ pc = "start"
    /\ svc = "webhook"
    /\ IF pageStatus \notin {"Working", "Not Started"}
       THEN /\ pc' = "done"
            /\ outcome' = "rejected"
            /\ rec' = rec
       ELSE /\ pc' = "dispatch"
            /\ outcome' = outcome
            /\ rec' = NewRecord("Failed")
    /\ UNCHANGED <<peopleDb, cache, all_people, succeedsAt, abandoned, other, svc, person, listed, pageStatus, store, link, peopleStatus, run, orphans,
                   phase, elapsed, results, existing, gate, calls>>

\* _extract_person_from_webhook: only a page whose Status is "Working"
ExtractPerson ==
    /\ pc = "start"
    /\ svc = "webhook"
    /\ IF pageStatus # "Working"
       THEN /\ pc' = "done"
            /\ outcome' = "rejected"
            /\ rec' = rec
       ELSE /\ pc' = "dispatch"
            /\ outcome' = outcome
            /\ rec' = NewRecord("Failed")
    /\ UNCHANGED <<peopleDb, cache, all_people, succeedsAt, abandoned, other, svc, person, listed, pageStatus, store, link, peopleStatus, run, orphans,
                   phase, elapsed, results, existing, gate, calls>>

\* variant of CheckExisting that gives up when the lookup request fails
CheckExistingFailClosed ==
    /\ pc = "gate"
    /\ \E ok \in BOOLEAN, i \in 0 .. Len(store) :
         /\ (i = 0) = (~ok \/ store = <<>>)
         /\ existing' = i
         /\ IF ~ok \/ (i # 0 /\ ~_should_update_enrichment(store[i]))
            THEN /\ gate' = "skip"
                 /\ rec' = IF i # 0 THEN _extract_enrichment_record(store[i])
                                    ELSE NewRecord("Failed")
                 /\ pc' = "done"
                 /\ outcome' = "returned"
            ELSE /\ gate' = "run"
                 /\ rec' = NewRecord("In Progress")
                 /\ pc' = "dispatch"
                 /\ outcome' = outcome
    /\ UNCHANGED <<peopleDb, cache, all_people, succeedsAt, abandoned, other, svc, person, listed, pageStatus, store, link, peopleStatus, run, orphans,
                   phase, elapsed, results, calls>>

\* step 2 of enrich_person_complete: _find_existing_enrichment, then
\* _should_update_enrichment; a failed query answers None
CheckExisting ==
    /\ pc = "gate"
    /\ \E ok \in BOOLEAN, i \in 0 .. Len(store) :
         /\ (i = 0) = (~ok \/ store = <<>>)
         /\ existing' = i
         /\ IF i # 0 /\ ~_should_update_enrichment(store[i])
            THEN /\ gate' = "skip"
                 /\ rec' = _extract_enrichment_record(store[i])
                 /\ pc' = "done"
                 /\ outcome' = "returned"
            ELSE /\ gate' = "run"
                 /\ rec' = NewRecord("In Progress")
                 /\ pc' = "dispatch"
                 /\ outcome' = outcome
    /\ UNCHANGED <<peopleDb, cache, all_people, succeedsAt, abandoned, other, svc, person, listed, pageStatus, store, link, peopleStatus, run, orphans,
                   phase, elapsed, results, calls>>

SubmitOutcomes == {"ok", "request_error", "malformed"}

\* variant of Dispatch that sends the job-creation call once more after a
\* request error
DispatchWithRetry ==
    /\ pc = "dispatch"
    /\ LET p == Provider IN
       IF ~Qualifies(person, p)
       THEN /\ Advance
            /\ UNCHANGED <<rec, run, orphans, calls, elapsed>>
       ELSE IF BuildRaises(svc, person, p)
       THEN /\ Raised(p)
            /\ UNCHANGED <<run, orphans, calls, elapsed>>
       ELSE IF InputIsNone(svc, person, p)
       THEN /\ rec' = Assigned(rec, svc, p, NoResults)
            /\ Advance
            /\ UNCHANGED <<run, orphans, calls, elapsed>>
       ELSE \E o \in SubmitOutcomes :
            /\ calls' = [calls EXCEPT !.submit[p] = @ + 1]
            /\ elapsed' = 0
            /\ CASE o = "ok" ->
                      /\ run' = JobRun(p, "Submitted")
                      /\ pc' = "poll"
                      /\ UNCHANGED <<rec, phase, orphans>>
                 [] o = "request_error" ->
                      /\ IF calls.submit[p] = 0
                         THEN UNCHANGED <<rec, pc, phase>>
                         ELSE rec' = Assigned(rec, svc, p, NoResults) /\ Advance
                      /\ UNCHANGED <<run, orphans>>
                 [] OTHER ->
                      /\ orphans' = orphans \cup {p}
                      /\ Raised(p)
                      /\ run' = run
    /\ UNCHANGED <<peopleDb, cache, all_people, succeedsAt, abandoned, other, svc, person, listed, pageStatus, store, link, peopleStatus,
                   results, existing, gate, outcome>>

\* the guard of a phase, the request builder and _run_apify_actor
Dispatch ==
    /\ pc = "dispatch"
    /\ LET p == Provider IN
       IF ~Qualifies(person, p)
       THEN /\ Advance
            /\ UNCHANGED <<rec, run, orphans, calls, elapsed>>
       ELSE IF BuildRaises(svc, person, p)
       THEN /\ Raised(p)
            /\ UNCHANGED <<run, orphans, calls, elapsed>>
       ELSE IF InputIsNone(svc, person, p)
       THEN /\ rec' = Assigned(rec, svc, p, NoResults)
            /\ Advance
            /\ UNCHANGED <<run, orphans, calls, elapsed>>
       ELSE \E o \in SubmitOutcomes :
            /\ calls' = [calls EXCEPT !.submit[p] = @ + 1]
            /\ elapsed' = 0
            /\ CASE o = "ok" ->
                      /\ run' = JobRun(p, "Submitted")
                      /\ pc' = "poll"
                      /\ UNCHANGED <<rec, phase, orphans>>
                 [] o = "request_error" ->
                      /\ rec' = Assigned(rec, svc, p, NoResults)
                      /\ Advance
                      /\ UNCHANGED <<run, orphans>>
                 [] OTHER ->
                      /\ orphans' = orphans \cup {p}
                      /\ Raised(p)
                      /\ run' = run
    /\ UNCHANGED <<peopleDb, cache, all_people, succeedsAt, abandoned, other, svc, person, listed, pageStatus, store, link, peopleStatus,
                   results, existing, gate, outcome>>

StatusResponses ==
    {"request_error", "malformed", "RUNNING", "SUCCEEDED", "FAILED", "ABORTED", "TIMED-OUT"}

JobState(status) ==
    CASE status = "RUNNING" -> "Running"
      [] status = "SUCCEEDED" -> "Succeeded"
      [] status = "FAILED" -> "Failed"
      [] status = "ABORTED" -> "Aborted"
      [] OTHER -> "TimedOut"

\* variant of Poll that goes on polling a run seen as ABORTED
PollThroughAborted ==
    /\ pc = "poll"
    /\ IF elapsed >= MaxWaitTime(svc)
       THEN /\ results' = NoResults
            /\ run' = JobRun(run.provider, "LocallyAbandoned")
            /\ abandoned' = abandoned \cup {run.provider}
            /\ pc' = "normalize"
            /\ UNCHANGED <<rec, phase, elapsed, calls>>
       ELSE \E rt \in RoundTrips, resp \in StatusResponses :
            /\ abandoned' = abandoned
            /\ calls' = [calls EXCEPT !.queried = @ \cup {run.provider}]
            /\ CASE resp = "request_error" ->
                   /\ results' = NoResults
                   /\ elapsed' = elapsed + rt
                   /\ run' = [run EXCEPT !.checkFailed = TRUE]
                   /\ pc' = "normalize"
                   /\ UNCHANGED <<rec, phase>>
              [] resp = "malformed" ->
                   /\ results' = NoResults
                   /\ elapsed' = elapsed + rt
                   /\ pc' = "raise"
                   /\ UNCHANGED <<rec, phase, run>>
              [] resp = "SUCCEEDED" ->
                   /\ results' = results
                   /\ elapsed' = elapsed + rt
                   /\ run' = JobRun(run.provider, JobState(resp))
                   /\ pc' = "fetch"
                   /\ UNCHANGED <<rec, phase>>
              [] resp \in {"FAILED", "TIMED-OUT"} ->
                   /\ results' = NoResults
                   /\ elapsed' = elapsed + rt
                   /\ run' = JobRun(run.provider, JobState(resp))
                   /\ pc' = "normalize"
                   /\ UNCHANGED <<rec, phase>>
              [] OTHER ->
                   /\ results' = results
                   /\ elapsed' = elapsed + rt + SleepSeconds(svc)
                   /\ run' = JobRun(run.provider, JobState(resp))
                   /\ pc' = pc
                   /\ UNCHANGED <<rec, phase>>
    /\ UNCHANGED <<peopleDb, cache, all_people, succeedsAt, other, svc, person, listed, pageStatus, store, link, peopleStatus,
                   orphans, existing, gate, outcome>>

\* variant of Poll that aborts the actor run when max wait has passed
PollCancelsOnTimeout ==
    /\ pc = "poll"
    /\ IF elapsed >= MaxWaitTime(svc)
       THEN /\ results' = NoResults
            /\ run' = JobRun(run.provider, "Aborted")
            /\ abandoned' = abandoned \cup {run.provider}
            /\ pc' = "normalize"
            /\ UNCHANGED <<rec, phase, elapsed, calls>>
       ELSE \E rt \in RoundTrips, resp \in StatusResponses :
            /\ abandoned' = abandoned
            /\ calls' = [calls EXCEPT !.queried = @ \cup {run.provider}]
            /\ CASE resp = "request_error" ->
                   /\ results' = NoResults
                   /\ elapsed' = elapsed + rt
                   /\ run' = [run EXCEPT !.checkFailed = TRUE]
                   /\ pc' = "normalize"
                   /\ UNCHANGED <<rec, phase>>
              [] resp = "malformed" ->
                   /\ results' = NoResults
                   /\ elapsed' = elapsed + rt
                   /\ pc' = "raise"
                   /\ UNCHANGED <<rec, phase, run>>
              [] resp = "SUCCEEDED" ->
                   /\ results' = results
                   /\ elapsed' = elapsed + rt
                   /\ run' = JobRun(run.provider, JobState(resp))
                   /\ pc' = "fetch"
                   /\ UNCHANGED <<rec, phase>>
              [] resp \in {"FAILED", "ABORTED", "TIMED-OUT"} ->
                   /\ results' = NoResults
                   /\ elapsed' = elapsed + rt
                   /\ run' = JobRun(run.provider, JobState(resp))
                   /\ pc' = "normalize"
                   /\ UNCHANGED <<rec, phase>>
              [] OTHER ->
                   /\ results' = results
                   /\ elapsed' = elapsed + rt + SleepSeconds(svc)
                   /\ run' = JobRun(run.provider, JobState(resp))
                   /\ pc' = pc
                   /\ UNCHANGED <<rec, phase>>
    /\ UNCHANGED <<peopleDb, cache, all_people, succeedsAt, other, svc, person, listed, pageStatus, store, link, peopleStatus,
                   orphans, existing, gate, outcome>>

\* variant of Poll that sleeps and asks again after a failed status request
PollRetriesCheck ==
    /\ pc = "poll"
    /\ IF elapsed >= MaxWaitTime(svc)
       THEN /\ results' = NoResults
            /\ run' = JobRun(run.provider, "LocallyAbandoned")
            /\ abandoned' = abandoned \cup {run.provider}
            /\ pc' = "normalize"
            /\ UNCHANGED <<rec, phase, elapsed, calls>>
       ELSE \E rt \in RoundTrips, resp \in StatusResponses :
            /\ abandoned' = abandoned
            /\ calls' = [calls EXCEPT !.queried = @ \cup {run.provider}]
            /\ CASE resp = "request_error" ->
                   /\ results' = results
                   /\ elapsed' = elapsed + rt + SleepSeconds(svc)
                   /\ run' = [run EXCEPT !.checkFailed = TRUE]
                   /\ pc' = pc
                   /\ UNCHANGED <<rec, phase>>
              [] resp = "malformed" ->
                   /\ results' = NoResults
                   /\ elapsed' = elapsed + rt
                   /\ pc' = "raise"
                   /\ UNCHANGED <<rec, phase, run>>
              [] resp = "SUCCEEDED" ->
                   /\ results' = results
                   /\ elapsed' = elapsed + rt
                   /\ run' = JobRun(run.provider, JobState(resp))
                   /\ pc' = "fetch"
                   /\ UNCHANGED <<rec, phase>>
              [] resp \in {"FAILED", "ABORTED", "TIMED-OUT"} ->
                   /\ results' = NoResults
                   /\ elapsed' = elapsed + rt
                   /\ run' = JobRun(run.provider, JobState(resp))
                   /\ pc' = "normalize"
                   /\ UNCHANGED <<rec, phase>>
              [] OTHER ->
                   /\ results' = results
                   /\ elapsed' = elapsed + rt + SleepSeconds(svc)
                   /\ run' = JobRun(run.provider, JobState(resp))
                   /\ pc' = pc
                   /\ UNCHANGED <<rec, phase>>
    /\ UNCHANGED <<peopleDb, cache, all_people, succeedsAt, other, svc, person, listed, pageStatus, store, link, peopleStatus,
                   orphans, existing, gate, outcome>>

\* variant of Poll whose loop test allows twice the max wait
PollWithDoubleWait ==
    /\ pc = "poll"
    /\ IF elapsed >= 2 * MaxWaitTime(svc)
       THEN /\ results' = NoResults
            /\ run' = JobRun(run.provider, "LocallyAbandoned")
            /\ abandoned' = abandoned \cup {run.provider}
            /\ pc' = "normalize"
            /\ UNCHANGED <<rec, phase, elapsed, calls>>
       ELSE \E rt \in RoundTrips, resp \in StatusResponses :
            /\ abandoned' = abandoned
            /\ calls' = [calls EXCEPT !.queried = @ \cup {run.provider}]
            /\ CASE resp = "request_error" ->
                   /\ results' = NoResults
                   /\ elapsed' = elapsed + rt
                   /\ run' = [run EXCEPT !.checkFailed = TRUE]
                   /\ pc' = "normalize"
                   /\ UNCHANGED <<rec, phase>>
              [] resp = "malformed" ->
                   /\ results' = NoResults
                   /\ elapsed' = elapsed + rt
                   /\ pc' = "raise"
                   /\ UNCHANGED <<rec, phase, run>>
              [] resp = "SUCCEEDED" ->
                   /\ results' = results
                   /\ elapsed' = elapsed + rt
                   /\ run' = JobRun(run.provider, JobState(resp))
                   /\ pc' = "fetch"
                   /\ UNCHANGED <<rec, phase>>
              [] resp \in {"FAILED", "ABORTED", "TIMED-OUT"} ->
                   /\ results' = NoResults
                   /\ elapsed' = elapsed + rt
                   /\ run' = JobRun(run.provider, JobState(resp))
                   /\ pc' = "normalize"
                   /\ UNCHANGED <<rec, phase>>
              [] OTHER ->
                   /\ results' = results
                   /\ elapsed' = elapsed + rt + SleepSeconds(svc)
                   /\ run' = JobRun(run.provider, JobState(resp))
                   /\ pc' = pc
                   /\ UNCHANGED <<rec, phase>>
    /\ UNCHANGED <<peopleDb, cache, all_people, succeedsAt, other, svc, person, listed, pageStatus, store, link, peopleStatus,
                   orphans, existing, gate, outcome>>

\* variant of Poll that sleeps two poll intervals between status requests
PollSleepsTwice ==
    /\ pc = "poll"
    /\ IF elapsed >= MaxWaitTime(svc)
       THEN /\ results' = NoResults
            /\ run' = JobRun(run.provider, "LocallyAbandoned")
            /\ abandoned' = abandoned \cup {run.provider}
            /\ pc' = "normalize"
            /\ UNCHANGED <<rec, phase, elapsed, calls>>
       ELSE \E rt \in RoundTrips, resp \in StatusResponses :
            /\ abandoned' = abandoned
            /\ calls' = [calls EXCEPT !.queried = @ \cup {run.provider}]
            /\ CASE resp = "request_error" ->
                   /\ results' = NoResults
                   /\ elapsed' = elapsed + rt
                   /\ run' = [run EXCEPT !.checkFailed = TRUE]
                   /\ pc' = "normalize"
                   /\ UNCHANGED <<rec, phase>>
              [] resp = "malformed" ->
                   /\ results' = NoResults
                   /\ elapsed' = elapsed + rt
                   /\ pc' = "raise"
                   /\ UNCHANGED <<rec, phase, run>>
              [] resp = "SUCCEEDED" ->
                   /\ results' = results
                   /\ elapsed' = elapsed + rt
                   /\ run' = JobRun(run.provider, JobState(resp))
                   /\ pc' = "fetch"
                   /\ UNCHANGED <<rec, phase>>
              [] resp \in {"FAILED", "ABORTED", "TIMED-OUT"} ->
                   /\ results' = NoResults
                   /\ elapsed' = elapsed + rt
                   /\ run' = JobRun(run.provider, JobState(resp))
                   /\ pc' = "normalize"
                   /\ UNCHANGED <<rec, phase>>
              [] OTHER ->
                   /\ results' = results
                   /\ elapsed' = elapsed + rt + 2 * SleepSeconds(svc)
                   /\ run' = JobRun(run.provider, JobState(resp))
                   /\ pc' = pc
                   /\ UNCHANGED <<rec, phase>>
    /\ UNCHANGED <<peopleDb, cache, all_people, succeedsAt, other, svc, person, listed, pageStatus, store, link, peopleStatus,
                   orphans, existing, gate, outcome>>

\* one pass of the while loop of _get_actor_results: the loop test, the
\* status request, and the sleep when the run is not finished
Poll ==
    /\ pc = "poll"
    /\ IF elapsed >= MaxWaitTime(svc)
       THEN /\ results' = NoResults
            /\ run' = JobRun(run.provider, "LocallyAbandoned")
            /\ abandoned' = abandoned \cup {run.provider}
            /\ pc' = "normalize"
            /\ UNCHANGED <<rec, phase, elapsed, calls>>
       ELSE \E rt \in RoundTrips, resp \in StatusResponses :
            /\ abandoned' = abandoned
            /\ calls' = [calls EXCEPT !.queried = @ \cup {run.provider}]
            /\ CASE resp = "request_error" ->
                   /\ results' = NoResults
                   /\ elapsed' = elapsed + rt
                   /\ run' = [run EXCEPT !.checkFailed = TRUE]
                   /\ pc' = "normalize"
                   /\ UNCHANGED <<rec, phase>>
              [] resp = "malformed" ->
                   /\ results' = NoResults
                   /\ elapsed' = elapsed + rt
                   /\ pc' = "raise"
                   /\ UNCHANGED <<rec, phase, run>>
              [] resp = "SUCCEEDED" ->
                   /\ results' = results
                   /\ elapsed' = elapsed + rt
                   /\ run' = JobRun(run.provider, JobState(resp))
                   /\ pc' = "fetch"
                   /\ UNCHANGED <<rec, phase>>
              [] resp \in {"FAILED", "ABORTED", "TIMED-OUT"} ->
                   /\ results' = NoResults
                   /\ elapsed' = elapsed + rt
                   /\ run' = JobRun(run.provider, JobState(resp))
                   /\ pc' = "normalize"
                   /\ UNCHANGED <<rec, phase>>
              [] OTHER ->
                   /\ results' = results
                   /\ elapsed' = elapsed + rt + SleepSeconds(svc)
                   /\ run' = JobRun(run.provider, JobState(resp))
                   /\ pc' = pc
                   /\ UNCHANGED <<rec, phase>>
    /\ UNCHANGED <<peopleDb, cache, all_people, succeedsAt, other, svc, person, listed, pageStatus, store, link, peopleStatus,
                   orphans, existing, gate, outcome>>

\* variant of Fetch that asks for the dataset again after a request error
FetchAgainOnError ==
    /\ pc = "fetch"
    /\ \E rt \in RoundTrips, ok \in BOOLEAN, items \in ResultLists(Provider) :
         /\ ~ok => items = <<>>
         /\ results' = IF ok THEN Dataset(items) ELSE NoResults
         /\ elapsed' = elapsed + rt
         /\ pc' = IF ~ok /\ elapsed < MaxWaitTime(svc) THEN "fetch" ELSE "normalize"
    /\ UNCHANGED <<peopleDb, cache, all_people, succeedsAt, abandoned, other, svc, person, listed, pageStatus, store, link, peopleStatus, run,
                   orphans, phase, existing, gate, rec, outcome, calls>>

\* the dataset request that follows a SUCCEEDED status; its failure is a
\* RequestException caught in the loop, which returns None
Fetch ==
    /\ pc = "fetch"
    /\ \E rt \in RoundTrips, ok \in BOOLEAN, items \in ResultLists(Provider) :
         /\ ~ok => items = <<>>
         /\ results' = IF ok THEN Dataset(items) ELSE NoResults
         /\ elapsed' = elapsed + rt
    /\ pc' = "normalize"
    /\ UNCHANGED <<peopleDb, cache, all_people, succeedsAt, abandoned, other, svc, person, listed, pageStatus, store, link, peopleStatus, run,
                   orphans, phase, existing, gate, rec, outcome, calls>>

\* the run was left in a state that is not terminal on the remote side
Unfinished(r) == r.state \in {"Submitted", "Running", "LocallyAbandoned"}

\* variant of Normalize that submits the provider's job once more when the
\* poll ended without a result
NormalizeWithRetry ==
    /\ pc = "normalize"
    /\ rec' = Assigned(rec, svc, Provider, results)
    /\ results' = NoResults
    /\ elapsed' = 0
    /\ run' = NoRun
    /\ calls' = [calls EXCEPT !.surplus = @ \/ Len(results.items) > 1]
    /\ orphans' = IF Unfinished(run) THEN orphans \cup {run.provider} ELSE orphans
    /\ IF results.returned = "none" /\ calls.submit[Provider] < 2
       THEN pc' = "dispatch" /\ phase' = phase
       ELSE Advance
    /\ UNCHANGED <<peopleDb, cache, all_people, succeedsAt, abandoned, other, svc, person, listed, pageStatus, store, link, peopleStatus,
                   existing, gate, outcome>>

\* the pipeline of the provider returns and the phase assigns its value;
\* the JobRun is dropped, the actor run itself is never cancelled
Normalize ==
    /\ pc = "normalize"
    /\ rec' = Assigned(rec, svc, Provider, results)
    /\ results' = NoResults
    /\ elapsed' = 0
    /\ run' = NoRun
    /\ calls' = [calls EXCEPT !.surplus = @ \/ Len(results.items) > 1]
    /\ orphans' = IF Unfinished(run) THEN orphans \cup {run.provider} ELSE orphans
    /\ Advance
    /\ UNCHANGED <<peopleDb, cache, all_people, succeedsAt, abandoned, other, svc, person, listed, pageStatus, store, link, peopleStatus,
                   existing, gate, outcome>>

\* status_response.json()['data'] fails on a body without 'data': the
\* KeyError is no RequestException and leaves _get_actor_results
PollRaises ==
    /\ pc = "raise"
    /\ results' = NoResults
    /\ elapsed' = 0
    /\ run' = NoRun
    /\ orphans' = IF Unfinished(run) THEN orphans \cup {run.provider} ELSE orphans
    /\ Raised(Provider)
    /\ UNCHANGED <<peopleDb, cache, all_people, succeedsAt, abandoned, other, svc, person, listed, pageStatus, store, link, peopleStatus,
                   existing, gate, outcome, calls>>

\* variant of Score that marks the record Low when a poll was given up
ScoreWithPollPenalty ==
    /\ pc = "score"
    /\ IF svc = "improved"
       THEN /\ rec' = [rec EXCEPT !.score = _calculate_completeness(rec),
                                  !.confidence = IF orphans # {} THEN "Low"
                                                 ELSE _assess_data_confidence(rec)]
            /\ pc' = "status"
            /\ outcome' = outcome
       ELSE IF ConfidenceRaises(rec)
       THEN /\ rec' = [rec EXCEPT !.score = _calculate_enhanced_completeness(rec)]
            /\ pc' = "done"
            /\ outcome' = "raised"
       ELSE /\ rec' = [rec EXCEPT !.score = _calculate_enhanced_completeness(rec),
                                  !.confidence = _assess_enhanced_confidence(rec)]
            /\ pc' = "status"
            /\ outcome' = outcome
    /\ UNCHANGED <<peopleDb, cache, all_people, succeedsAt, abandoned, other, svc, person, listed, pageStatus, store, link, peopleStatus, run, orphans,
                   phase, elapsed, results, existing, gate, calls>>

\* step 6 / phase 4: completeness, then confidence
Score ==
    /\ pc = "score"
    /\ IF svc = "improved"
       THEN /\ rec' = [rec EXCEPT !.score = _calculate_completeness(rec),
                                  !.confidence = _assess_data_confidence(rec)]
            /\ pc' = "status"
            /\ outcome' = outcome
       ELSE IF ConfidenceRaises(rec)
       THEN /\ rec' = [rec EXCEPT !.score = _calculate_enhanced_completeness(rec)]
            /\ pc' = "done"
            /\ outcome' = "raised"
       ELSE /\ rec' = [rec EXCEPT !.score = _calculate_enhanced_completeness(rec),
                                  !.confidence = _assess_enhanced_confidence(rec)]
            /\ pc' = "status"
            /\ outcome' = outcome
    /\ UNCHANGED <<peopleDb, cache, all_people, succeedsAt, abandoned, other, svc, person, listed, pageStatus, store, link, peopleStatus, run, orphans,
                   phase, elapsed, results, existing, gate, calls>>

\* step 7 / phase 5
DetermineStatus ==
    /\ pc = "status"
    /\ rec' = [rec EXCEPT !.status = _determine_enrichment_status(rec)]
    /\ pc' = "store"
    /\ UNCHANGED <<peopleDb, cache, all_people, succeedsAt, abandoned, other, svc, person, listed, pageStatus, store, link, peopleStatus, run, orphans,
                   phase, elapsed, results, existing, gate, outcome, calls>>

\* the page created from the record; the webhook page has no confidence
\* and no completeness property
NewPage(r, s) ==
    [status |-> r.status,
     confidence |-> IF s = "webhook" THEN "unset" ELSE r.confidence,
     score |-> IF s = "webhook" THEN 0 ELSE r.score,
     ts |-> "ok", age |-> 0, fresh |-> TRUE]

StoreOutcomes == {"ok", "request_error", "raises"}

\* variant of StoreRecord that rewrites the record found by the gate instead
\* of creating a page
StoreRecordInPlace ==
    /\ pc = "store"
    /\ svc \in {"improved", "enhanced"}
    /\ \E o \in StoreOutcomes :
         /\ calls' = [calls EXCEPT !.create = @ + 1]
         /\ store' = IF o = "request_error" THEN store
                     ELSE IF existing # 0
                          THEN [store EXCEPT ![existing] = NewPage(rec, svc)]
                          ELSE Append(store, NewPage(rec, svc))
         /\ pc' = IF o = "ok" THEN "link" ELSE "done"
         /\ outcome' = CASE o = "ok" -> outcome
                         [] o = "request_error" -> "returned"
                         [] OTHER -> "raised"
    /\ UNCHANGED <<peopleDb, cache, all_people, succeedsAt, abandoned, other, svc, person, listed, pageStatus, link, peopleStatus, run, orphans,
                   phase, elapsed, results, existing, gate, rec>>

\* variant of StoreRecord that goes on to the link step whatever the write
\* answered
StoreRecordThenLink ==
    /\ pc = "store"
    /\ svc \in {"improved", "enhanced"}
    /\ \E o \in StoreOutcomes :
         /\ calls' = [calls EXCEPT !.create = @ + 1]
         /\ store' = IF o = "request_error" THEN store
                     ELSE Append(store, NewPage(rec, svc))
         /\ pc' = IF o = "raises" THEN "done" ELSE "link"
         /\ outcome' = IF o = "raises" THEN "raised" ELSE outcome
    /\ UNCHANGED <<peopleDb, cache, all_people, succeedsAt, abandoned, other, svc, person, listed, pageStatus, link, peopleStatus, run, orphans,
                   phase, elapsed, results, existing, gate, rec>>

\* _store_enrichment_record / _store_enhanced_enrichment_record: the POST may
\* succeed, fail with a RequestException (caught, None), or be answered by a
\* body without 'id' (the page exists, the KeyError leaves the method)
StoreRecord ==
    /\ pc = "store"
    /\ svc \in {"improved", "enhanced"}
    /\ \E o \in StoreOutcomes :
         /\ calls' = [calls EXCEPT !.create = @ + 1]
         /\ store' = IF o = "request_error" THEN store
                     ELSE Append(store, NewPage(rec, svc))
         /\ pc' = IF o = "ok" THEN "link" ELSE "done"
         /\ outcome' = CASE o = "ok" -> outcome
                         [] o = "request_error" -> "returned"
                         [] OTHER -> "raised"
    /\ UNCHANGED <<peopleDb, cache, all_people, succeedsAt, abandoned, other, svc, person, listed, pageStatus, link, peopleStatus, run, orphans,
                   phase, elapsed, results, existing, gate, rec>>

\* the storage block of _run_comprehensive_enrichment: _store_enrichment_data
\* answers True or False, or an exception raised while the page is built is
\* caught and recorded
StoreData ==
    /\ pc = "store"
    /\ svc = "webhook"
    /\ IF ~(rec.apollo_success \/ rec.linkedin_success)
       THEN UNCHANGED <<rec, store, calls>>
       ELSE \E o \in StoreOutcomes :
            CASE o = "ok" ->
                   /\ calls' = [calls EXCEPT !.create = @ + 1]
                   /\ store' = Append(store, NewPage(rec, svc))
                   /\ rec' = [rec EXCEPT !.storage_success = TRUE, !.status = "Completed"]
              [] o = "request_error" ->
                   /\ calls' = [calls EXCEPT !.create = @ + 1]
                   /\ store' = store
                   /\ rec' = [rec EXCEPT !.storage_success = FALSE, !.status = "Partial"]
              [] OTHER ->
                   /\ calls' = calls
                   /\ store' = store
                   /\ rec' = [rec EXCEPT !.errors = Append(@, "Storage error")]
    /\ pc' = "people_status"
    /\ UNCHANGED <<peopleDb, cache, all_people, succeedsAt, abandoned, other, svc, person, listed, pageStatus, link, peopleStatus, run, orphans,
                   phase, elapsed, results, existing, gate, outcome>>

\* enrichment_page_id: the page that _store_enrichment_record of this
\* invocation created
OwnPage == CHOOSE i \in 1 .. Len(store) : store[i].fresh /\ i # other.page

\* step 9: _link_to_people_db with the id of the page just created
LinkToPeopleDb ==
    /\ pc = "link"
    /\ \E ok \in BOOLEAN :
         /\ link' = IF ok THEN OwnPage ELSE link
         /\ calls' = [calls EXCEPT !.link = @ + 1,
                                   !.linked = IF ok THEN @ + 1 ELSE @]
    /\ pc' = "done"
    /\ outcome' = "returned"
    /\ UNCHANGED <<peopleDb, cache, all_people, succeedsAt, abandoned, other, svc, person, listed, pageStatus, store, peopleStatus, run, orphans,
                   phase, elapsed, results, existing, gate, rec>>

NewPeopleStatus(r) ==
    IF r.status = "Completed" THEN "Completed"
    ELSE IF r.apollo_success \/ r.linkedin_success THEN "Partial" ELSE "Failed"

\* _update_people_db_status and the return of process_webhook
UpdatePeopleStatus ==
    /\ pc = "people_status"
    /\ \E ok \in BOOLEAN :
         peopleStatus' = IF ok THEN NewPeopleStatus(rec) ELSE peopleStatus
    /\ calls' = [calls EXCEPT !.patch = @ + 1]
    /\ pc' = "done"
    /\ outcome' = "returned"
    /\ UNCHANGED <<peopleDb, cache, all_people, succeedsAt, abandoned, other, svc, person, listed, pageStatus, store, link, run, orphans,
                   phase, elapsed, results, existing, gate, rec>>

\* raw keys that _extract_apollo_fields / _extract_linkedin_fields copy
ApifyApolloKeys ==
    {"email", "personal_email", "phone_number", "mobile_phone_number", "title",
     "organization_name", "linkedin_url", "city", "state", "country"}
ApifyLinkedInKeys ==
    {"headline", "summary", "location", "experience", "education", "skills",
     "email", "connections", "followers"}

\* enriched_fields of _merge_enrichment_data
EnrichedFields(r) ==
      (IF Truthy(r.apollo_data) THEN r.apollo_data.filled \cap ApifyApolloKeys ELSE {})
 \cup (IF Truthy(r.linkedin_data) THEN r.linkedin_data.filled \cap ApifyLinkedInKeys ELSE {})

\* step 3 of enrich_person
Merge ==
    /\ pc = "merge"
    /\ rec' = [rec EXCEPT !.merged = TRUE]
    /\ pc' = "update"
    /\ UNCHANGED <<peopleDb, cache, all_people, succeedsAt, abandoned, other, svc, person, listed, pageStatus, store, link, peopleStatus, run, orphans,
                   phase, elapsed, results, existing, gate, outcome, calls>>

\* the end of enrich_person_by_id: update_notion_record when there are
\* enriched fields and no errors
UpdateNotionRecord ==
    /\ pc = "update"
    /\ calls' = IF rec.merged /\ EnrichedFields(rec) # {} /\ rec.errors = <<>>
                THEN [calls EXCEPT !.patch = @ + 1] ELSE calls
    /\ pc' = "done"
    /\ outcome' = "returned"
    /\ UNCHANGED <<peopleDb, cache, all_people, succeedsAt, abandoned, other, svc, person, listed, pageStatus, store, link, peopleStatus, run, orphans,
                   phase, elapsed, results, existing, gate, rec>>

Next ==
    \/ ResolvePerson
    \/ ExtractPerson
    \/ CheckExisting
    \/ Dispatch
    \/ Poll
    \/ Fetch
    \/ Normalize
    \/ PollRaises
    \/ Score
    \/ DetermineStatus
    \/ StoreRecord
    \/ StoreData
    \/ LinkToPeopleDb
    \/ UpdatePeopleStatus
    \/ Merge
    \/ UpdateNotionRecord

Spec == Init /\ [][Next]_vars

----------------------------------------------------------------------------
(* A second invocation of enrich_person_complete for the same person, run  *)
(* by another process against the same Notion stores.  Its provider phases *)
(* touch nothing the first invocation reads: they are kept as the          *)
(* submission and the end of the poll loop of each provider.               *)

\* what the second invocation neither reads nor writes, or only reads
FirstInvocation ==
    <<svc, person, listed, pageStatus, peopleStatus, run, orphans, abandoned, succeedsAt, pc, phase, elapsed,
      results, existing, gate, rec, outcome, calls, peopleDb, cache, all_people>>

\* the first invocation has passed the gate and its write has not landed
InFlight ==
    /\ gate = "run"
    /\ pc \notin {"link", "done"}
    /\ \A i \in 1 .. Len(store) : ~store[i].fresh

\* step 1: the person is found in the listing
OtherStart ==
    /\ other.pc = "idle"
    /\ svc = "improved"
    /\ listed
    /\ other' = [other EXCEPT !.pc = "gate", !.after = (pc = "done")]
    /\ UNCHANGED <<FirstInvocation, store, link>>

\* step 2: _find_existing_enrichment, then _should_update_enrichment
OtherCheckExisting ==
    /\ other.pc = "gate"
    /\ \E ok \in BOOLEAN, i \in 0 .. Len(store) :
         /\ (i = 0) = (~ok \/ store = <<>>)
         /\ IF i # 0 /\ ~_should_update_enrichment(store[i])
            THEN other' = [other EXCEPT !.existing = i, !.gate = "skip", !.pc = "done"]
            ELSE other' = [other EXCEPT !.existing = i, !.gate = "run",
                                        !.pc = "dispatch", !.raced = InFlight]
    /\ UNCHANGED <<FirstInvocation, store, link>>

\* steps 4 and 5: the guard of the phase and _run_apify_actor
OtherDispatch ==
    /\ other.pc = "dispatch"
    /\ LET p == Phases(svc)[other.phase]
           next == IF other.phase < Len(Phases(svc)) THEN "dispatch" ELSE "store"
       IN  IF ~Qualifies(person, p) \/ InputIsNone(svc, person, p)
           THEN other' = [other EXCEPT !.phase = @ + 1, !.pc = next]
           ELSE \E o \in SubmitOutcomes :
                  other' = IF o = "ok"
                           THEN [other EXCEPT !.run = p, !.pc = "poll"]
                           ELSE [other EXCEPT !.phase = @ + 1, !.pc = next]
    /\ UNCHANGED <<FirstInvocation, store, link>>

\* _get_actor_results returns, with data or without
OtherCollect ==
    /\ other.pc = "poll"
    /\ other' = [other EXCEPT !.run = "none", !.phase = @ + 1,
                              !.pc = IF other.phase < Len(Phases(svc))
                                     THEN "dispatch" ELSE "store"]
    /\ UNCHANGED <<FirstInvocation, store, link>>

\* variant of OtherStore that answers with the page the other invocation has
\* just created instead of creating one
OtherStoreUnlessPresent ==
    /\ other.pc = "store"
    /\ \E o \in StoreOutcomes, st \in {"Completed", "Partial", "Failed"} :
         LET present == {i \in 1 .. Len(store) : store[i].fresh} IN
         /\ store' = IF o = "request_error" \/ present # {} THEN store
                     ELSE Append(store, NewPage(NewRecord(st), svc))
         /\ other' = [other EXCEPT !.page = IF o = "request_error" THEN 0
                                           ELSE IF present # {} THEN CHOOSE i \in present : TRUE
                                           ELSE Len(store) + 1,
                                   !.pc = IF o = "ok" THEN "link" ELSE "done"]
    /\ UNCHANGED <<FirstInvocation, link>>

\* steps 6 to 8: the record is scored and _store_enrichment_record creates
\* its page
OtherStore ==
    /\ other.pc = "store"
    /\ \E o \in StoreOutcomes, st \in {"Completed", "Partial", "Failed"} :
         /\ store' = IF o = "request_error" THEN store
                     ELSE Append(store, NewPage(NewRecord(st), svc))
         /\ other' = [other EXCEPT !.page = IF o = "request_error" THEN 0 ELSE Len(store) + 1,
                                   !.pc = IF o = "ok" THEN "link" ELSE "done"]
    /\ UNCHANGED <<FirstInvocation, link>>

\* step 9: _link_to_people_db
OtherLink ==
    /\ other.pc = "link"
    /\ \E ok \in BOOLEAN :
         /\ link' = IF ok THEN other.page ELSE link
         /\ other' = [other EXCEPT !.pc = "done", !.linked = ok]
    /\ UNCHANGED <<FirstInvocation, store>>

\* the persons and stores of the runs with two invocations
RacePersons ==
    {q \in PersonsOf("improved") : q.employer /\ ~q.email}

InitTwo ==
    /\ Init
    /\ svc = "improved"
    /\ listed
    /\ person \in RacePersons
    /\ \A i \in 1 .. Len(store) :
         /\ store[i].ts = "ok"
         /\ store[i].age \in {10 * HoursPerDay, MaxAgeHours}

NextTwo ==
    \/ ResolvePerson
    \/ CheckExisting
    \/ Dispatch
    \/ Poll
    \/ Fetch
    \/ Normalize
    \/ PollRaises
    \/ Score
    \/ DetermineStatus
    \/ StoreRecord
    \/ LinkToPeopleDb
    \/ OtherStart
    \/ OtherCheckExisting
    \/ OtherDispatch
    \/ OtherCollect
    \/ OtherStore
    \/ OtherLink

SpecTwo == InitTwo /\ [][NextTwo]_vars

----------------------------------------------------------------------------
TypeOK ==
    /\ svc \in Services
    /\ person \in Persons
    /\ pc \in {"start", "gate", "dispatch", "poll", "fetch", "normalize", "raise", "score",
               "status", "store", "link", "people_status", "merge", "update", "done",
               "listing"}
    /\ outcome \in {"running", "returned", "raised", "rejected"}
    /\ (pc = "done") = (outcome # "running")
    /\ gate \in {"pending", "run", "skip"}
    /\ link \in 0 .. Len(store)
    /\ existing \in 0 .. Len(store)
    /\ peopleDb.home \in 0 .. peopleDb.pages
    /\ all_people \in 0 .. peopleDb.pages
    /\ \A n \in cache : n \in 0 .. peopleDb.pages

----------------------------------------------------------------------------
(* Vocabulary of the properties *)

\* at least one provider produced data
ProducedData == Truthy(rec.apollo_data) \/ Truthy(rec.linkedin_data)

\* the attempt created a page in the Enrichment DB
FreshStored == \E i \in 1 .. Len(store) : store[i].fresh

NoSubmission == \A p \in DOMAIN calls.submit : calls.submit[p] = 0

\* the attempt went through the provider phases (it was neither refused
\* nor skipped by the gate)
Ran ==
    /\ listed
    /\ pageStatus = "Working"
    /\ gate # "skip"

Returned == pc = "done" /\ outcome = "returned"

HasError(msg) == \E i \in 1 .. Len(rec.errors) : rec.errors[i] = msg

\* C1: once the status has been determined (ImprovedEnrichmentService step 7,
\* _determine_enrichment_status), it is Completed if a provider produced data
\* and the error list is empty, Partial if a provider produced data and the
\* error list is not empty, and Failed if no provider produced data.
C1_StatusRule ==
    (svc \in {"improved", "enhanced"} /\ pc = "store") =>
        rec.status = IF ProducedData
                     THEN (IF rec.errors = <<>> THEN "Completed" ELSE "Partial")
                     ELSE "Failed"

\* C2: for a person without primary email, employer and profile URL the
\* attempt submits no provider job, the completeness score is 0 and the
\* resulting status is Failed.
C2_NothingToEnrich ==
    (svc \in {"improved", "enhanced", "webhook"} /\ Returned /\ Ran
        /\ ~person.email /\ ~person.employer /\ ~person.linkedin) =>
        (NoSubmission /\ rec.score = 0 /\ rec.status = "Failed")

\* C3: a provider pipeline that was dispatched and ended without data because
\* the run reached FAILED/ABORTED/TIMED-OUT, because the poll exceeded max
\* wait, or because a status check failed, appends exactly one entry to the
\* error list of the attempt.
C3_FailureRecorded ==
    [][(pc = "normalize" /\ results.returned = "none" /\ run.state # "Succeeded")
          => Len(rec'.errors) = Len(rec.errors) + 1]_vars

\* the Enrichment DB write of the attempt failed after providers produced data
WriteFailed ==
    /\ svc \in {"improved", "enhanced", "webhook"}
    /\ Returned /\ Ran
    /\ ProducedData
    /\ ~FreshStored

\* C4: when the write to the enrichment store fails after the providers
\* produced data, the returned result still carries the data and the computed
\* score and confidence, storage_success is false, and the error list holds
\* an entry for the storage failure.
C4_StorageFailureReported ==
    WriteFailed =>
        /\ ProducedData
        /\ svc = "improved" =>
              /\ rec.score = _calculate_completeness(rec)
              /\ rec.confidence = _assess_data_confidence(rec)
        /\ svc = "enhanced" =>
              /\ rec.score = _calculate_enhanced_completeness(rec)
              /\ rec.confidence = _assess_enhanced_confidence(rec)
        /\ ~rec.storage_success
        /\ HasError("Storage error")

\* C5: in a finished attempt the status is Completed exactly when the
\* persistence write succeeded and a provider produced data.
C5_CompletedIffStored ==
    (svc \in {"improved", "enhanced", "webhook"} /\ Returned /\ Ran) =>
        ((rec.status = "Completed") <=> (FreshStored /\ ProducedData))

\* C6: when the person id is not found in the source store the attempt
\* returns a result whose only error is 'Person not found', and it submits
\* no provider job, creates no enrichment record and writes no link.
C6_NotFoundShortCircuit ==
    (svc \in {"improved", "enhanced"} /\ ~listed) =>
        /\ calls = ZeroCalls
        /\ ~FreshStored
        /\ link = Len(store)
        /\ pc \in {"start", "done"}
        /\ pc = "done" => (outcome = "returned" /\ rec.errors = <<"Person not found">>)

C6_Witness ==
    /\ svc \in {"improved", "enhanced"}
    /\ ~listed
    /\ pc = "done"
    /\ rec.errors = <<"Person not found">>

\* C7: once dispatch has begun, an exception raised inside one provider's
\* pipeline is recorded in the error list and does not abort the attempt:
\* the attempt goes on with the next provider or, after the last one, with
\* what follows the provider phases, and the persistence step hands no
\* exception to the caller.
C7_FailureNeverAborts ==
    [][ /\ (pc \in {"dispatch", "raise"} /\ Len(rec'.errors) > Len(rec.errors))
           => pc' \in {"dispatch", AfterPhases(svc)}
        /\ (pc = "store") => outcome' # "raised" ]_vars

\* the gate has decided on a record whose timestamp parses, or on none
GateDecided == svc = "improved" /\ gate # "pending"

C9_GateFailsOpen ==
    [][(pc = "gate" /\ (existing' = 0 \/ store[existing'].ts # "ok"))
          => (gate' = "run" /\ pc' = "dispatch" /\ outcome' = "running")]_vars

C9_Witness ==
    /\ GateDecided
    /\ pc = "dispatch"
    /\ phase = 1
    /\ store # <<>>
    /\ existing = 0

\* C10: when the gate answers skip the attempt submits no provider job,
\* creates no enrichment record, writes no link, and returns a record equal
\* to the stored one: same status, completeness score and confidence.
C10_SkipReturnsStored ==
    (GateDecided /\ gate = "skip") =>
        /\ calls = ZeroCalls
        /\ ~FreshStored
        /\ link = Len(store)
        /\ Returned
        /\ rec.status = store[existing].status
        /\ rec.score = store[existing].score
        /\ rec.confidence = store[existing].confidence

----------------------------------------------------------------------------
(* The scoring functions on their own: the record to score is drawn from   *)
(* the normalized data the providers can deliver, scored by step 6, and    *)
(* scored again each time one more scored signal is made present.          *)

\* filled sets of a checklist given in the order of the code: its first k fields
Prefixes(seq) == {{seq[i] : i \in 1 .. k} : k \in 0 .. Len(seq)}

DataWith(filled, nexp, conn, news) ==
    [kind |-> "dict", filled |-> filled, nexp |-> nexp, conn |-> conn, news |-> news]

ApolloInputs(s) ==
    IF s = "improved"
    THEN {NoneData} \cup
         {DataWith({"raw_data"} \cup f, 0, -1, 0) : f \in SUBSET ImprovedApolloChecklist}
    ELSE {EmptyData} \cup
         {DataWith({"raw_data"} \cup f \cup v
                      \cup (IF n > 0 THEN {"news_mentions"} ELSE {}), 0, -1, n) :
             f \in Prefixes(<<"email", "phone", "title", "company", "industry",
                              "intent_data", "technographics">>),
             v \in SUBSET {"email_verified", "phone_verified"},
             n \in {0, 2}}

LinkedInInputs(s) ==
    IF s = "improved"
    THEN {NoneData, EmptyData} \cup
         {DataWith(f, IF "experience" \in f THEN 1 ELSE 0, -1, 0) :
             f \in (SUBSET ImprovedLinkedInChecklist) \ {{}}}
    ELSE {EmptyData} \cup
         {DataWith({"raw_data", "experience", "education"} \cup f, x, c, 0) :
             f \in Prefixes(<<"headline", "summary", "top_skills">>),
             x \in {0, 2}, c \in {-1, 0, 150}}

\* len(linkedin_connections), -1 for None
ConnectionInputs(s) == IF s = "improved" THEN {-1} ELSE {-1, 0, 25}

InitScore ==
    /\ svc \in {"improved", "enhanced"}
    /\ person \in {q \in PersonsOf(svc) : q.email /\ q.employer /\ q.linkedin /\ ~q.state}
    /\ listed = TRUE
    /\ pageStatus = "Working"
    /\ store = <<>>
    /\ link = 0
    /\ peopleStatus = pageStatus
    /\ run = NoRun
    /\ orphans = {}
    /\ abandoned = {}
    /\ peopleDb = OnePage
    /\ cache = {}
    /\ all_people = 0
    /\ succeedsAt = {}
    /\ pc = "score"
    /\ phase = Len(Phases(svc)) + 1
    /\ elapsed = 0
    /\ results = NoResults
    /\ existing = 0
    /\ gate = IF svc = "improved" THEN "run" ELSE "pending"
    /\ \E a \in ApolloInputs(svc), l \in LinkedInInputs(svc), c \in ConnectionInputs(svc) :
         rec = [NewRecord("In Progress") EXCEPT !.apollo_data = a, !.linkedin_data = l,
                                                !.connections = c, !.network = (c > 0)]
    /\ outcome = "running"
    /\ calls = ZeroCalls
    /\ other = OtherIdle

\* the scored signals of _assess_data_confidence / _assess_enhanced_confidence
Signals(s) ==
    IF s = "improved"
    THEN {<<"apollo", "email">>, <<"apollo", "phone">>, <<"apollo", "company">>,
          <<"linkedin", "headline">>, <<"linkedin", "experience">>,
          <<"linkedin", "education">>}
    ELSE {<<"apollo", "email_verified">>, <<"apollo", "phone_verified">>,
          <<"apollo", "intent_data">>, <<"apollo", "news_mentions">>,
          <<"linkedin", "experience">>, <<"linkedin", "connections">>,
          <<"network", "connections">>}

\* the signal earns its points in r
Present(s, r, sg) ==
    CASE sg[1] = "network" -> r.connections >= 20
      [] sg[1] = "apollo" /\ sg[2] = "news_mentions" ->
           Truthy(r.apollo_data) /\ r.apollo_data.news > 0
      [] sg[1] = "apollo" -> Truthy(r.apollo_data) /\ sg[2] \in r.apollo_data.filled
      [] s = "enhanced" /\ sg[2] = "experience" ->
           Truthy(r.linkedin_data) /\ r.linkedin_data.nexp >= 2
      [] s = "enhanced" /\ sg[2] = "connections" ->
           Truthy(r.linkedin_data) /\ r.linkedin_data.conn >= 100
      [] OTHER -> Truthy(r.linkedin_data) /\ sg[2] \in r.linkedin_data.filled

\* provider data d with one more key filled (a dict is made when there is none)
AddKey(d, k) ==
    IF Truthy(d) THEN [d EXCEPT !.filled = @ \cup {k}]
    ELSE DataWith({"raw_data", k}, 0, -1, 0)

\* the record r with the signal made present
WithSignal(s, r, sg) ==
    CASE sg[1] = "network" -> [r EXCEPT !.connections = 25, !.network = TRUE]
      [] sg[1] = "apollo" /\ sg[2] = "news_mentions" ->
           [r EXCEPT !.apollo_data = [AddKey(@, "news_mentions") EXCEPT !.news = 2]]
      [] sg[1] = "apollo" -> [r EXCEPT !.apollo_data = AddKey(@, sg[2])]
      [] s = "enhanced" /\ sg[2] = "experience" ->
           [r EXCEPT !.linkedin_data = [AddKey(@, "experience") EXCEPT !.nexp = 2]]
      [] s = "enhanced" /\ sg[2] = "connections" ->
           [r EXCEPT !.linkedin_data = [AddKey(@, "connections") EXCEPT !.conn = 150]]
      [] OTHER -> [r EXCEPT !.linkedin_data = AddKey(@, sg[2])]

\* one more scored signal is present and step 6 is run again on the record
AddSignal ==
    /\ pc = "status"
    /\ \E sg \in Signals(svc) :
         /\ ~Present(svc, rec, sg)
         /\ LET r == WithSignal(svc, rec, sg) IN
            IF svc = "improved"
            THEN /\ rec' = [r EXCEPT !.score = _calculate_completeness(r),
                                     !.confidence = _assess_data_confidence(r)]
                 /\ UNCHANGED <<pc, outcome>>
            ELSE IF ConfidenceRaises(r)
            THEN /\ rec' = [r EXCEPT !.score = _calculate_enhanced_completeness(r)]
                 /\ pc' = "done"
                 /\ outcome' = "raised"
            ELSE /\ rec' = [r EXCEPT !.score = _calculate_enhanced_completeness(r),
                                     !.confidence = _assess_enhanced_confidence(r)]
                 /\ UNCHANGED <<pc, outcome>>
    /\ UNCHANGED <<peopleDb, cache, all_people, succeedsAt, abandoned, other, svc, person, listed, pageStatus, store, link, peopleStatus, run,
                   orphans, phase, elapsed, results, existing, gate, calls>>

NextScore ==
    \/ Score
    \/ AddSignal

SpecScore == InitScore /\ [][NextScore]_vars

\* the checklist of provider p in service s
Checklist(s, p) ==
    CASE s = "improved" /\ p = "apollo" -> ImprovedApolloChecklist
      [] s = "improved" -> ImprovedLinkedInChecklist
      [] p = "apollo" -> EnhancedApolloChecklist
      [] OTHER -> EnhancedLinkedInChecklist

\* the checks of the network block that r passes (enhanced only)
NetworkChecks(s, r) ==
    IF s = "enhanced" /\ r.connections > 0
    THEN {"connections"} \cup (IF r.network THEN {"analysis", "strength"} ELSE {})
    ELSE {}

\* filled_fields: the checklist fields that hold a value
FilledFields(s, r) ==
      (IF Truthy(r.apollo_data)
       THEN Cardinality(Checklist(s, "apollo") \cap r.apollo_data.filled) ELSE 0)
    + (IF Truthy(r.linkedin_data)
       THEN Cardinality(Checklist(s, "linkedin") \cap r.linkedin_data.filled) ELSE 0)
    + Cardinality(NetworkChecks(s, r))

\* total_fields: the checklist fields that were counted
TotalFields(s, r) ==
      (IF Truthy(r.apollo_data) THEN Cardinality(Checklist(s, "apollo")) ELSE 0)
    + (IF Truthy(r.linkedin_data) THEN Cardinality(Checklist(s, "linkedin")) ELSE 0)
    + (IF s = "enhanced" /\ r.connections > 0 THEN 3 ELSE 0)

\* the record has been scored
Scored == svc \in {"improved", "enhanced"} /\ pc = "status"

\* C16: the completeness score is an integer in 0..100 equal to
\* floor(100 * filled / total), filled being the number of checklist fields
\* that hold a value and total the number of checklist fields counted (0 when
\* total is 0); 4 filled fields of a 6-field checklist give 66.
C16_CompletenessIsFloor ==
    Scored =>
        LET f == FilledFields(svc, rec)
            t == TotalFields(svc, rec)
        IN  /\ rec.score \in 0 .. 100
            /\ t = 0 => rec.score = 0
            /\ t > 0 => (rec.score * t <= 100 * f /\ 100 * f < (rec.score + 1) * t)
            /\ (f = 4 /\ t = 6) => rec.score = 66

C16_Witness ==
    /\ Scored
    /\ svc = "improved"
    /\ ~Truthy(rec.linkedin_data)
    /\ rec.apollo_data.filled \cap ImprovedApolloChecklist =
           {"email", "phone", "title", "company"}
    /\ rec.score = 66

\* the order Low < Medium < High
Rank(c) == CASE c = "Low" -> 0 [] c = "Medium" -> 1 [] OTHER -> 2

\* C19: confidence bucketing is monotonic: when one more scored signal is made
\* present and the record is scored again, the confidence level never moves
\* to a lower bucket in the order Low < Medium < High.
C19_ConfidenceMonotonic ==
    [][(pc = "status" /\ pc' = "status") =>
          Rank(rec'.confidence) >= Rank(rec.confidence)]_vars

C19_Witness ==
    /\ svc = "enhanced"
    /\ pc = "status"
    /\ "connections" \in rec.linkedin_data.filled
    /\ \A sg \in Signals(svc) : Present(svc, rec, sg)
    /\ rec.confidence = "High"

\* C20: when the phase of a provider is entered, a job is submitted for the
\* contact-data provider if and only if the person has a primary email or an
\* employer, and for the social-profile provider if and only if the person
\* has a profile URL; a provider whose input is absent is passed over with no
\* outbound call and no error entry.
C20_DispatchIffInput ==
    [][pc = "dispatch" =>
         LET p == Provider IN
         /\ (calls'.submit[p] = calls.submit[p] + 1) <=> Qualifies(person, p)
         /\ ~Qualifies(person, p) => (calls' = calls /\ rec'.errors = rec.errors)]_vars

----------------------------------------------------------------------------
(* Two invocations for one person *)

Created == {i \in 1 .. Len(store) : store[i].fresh}

\* the first invocation created a page
FirstPersisted == \E i \in Created : i # other.page

\* C11: after an attempt has persisted an enrichment record for a person, a
\* later attempt for the same person that does not overlap it and is made
\* within 30 days is skipped by the gate and creates no further record,
\* whatever older records the person has.
C11_SequentialIdempotent ==
    (other.after /\ outcome = "returned" /\ FirstPersisted /\ other.gate # "pending") =>
        (other.gate = "skip" /\ other.page = 0)

\* the persistence call of the first invocation returned a page id
FirstHandle == pc = "link" \/ calls.link > 0

\* C12: two concurrent invocations for one person can both pass the
\* staleness check before either write lands, and then both writes land:
\* whenever the second invocation passed the gate while the first was between
\* its gate and its write, and both persistence calls returned a page, the
\* store holds two records created for the person inside the staleness window.
C12_BothWritesLand ==
    (other.raced /\ FirstHandle /\ other.page # 0) =>
        /\ Cardinality(Created) = 2
        /\ \A i \in Created : ~_should_update_enrichment(store[i])

C12_Witness ==
    /\ other.raced
    /\ other.gate = "run" /\ gate = "run"
    /\ other.existing = 0 /\ existing = 0
    /\ FirstHandle /\ other.page # 0
    /\ Len(store) = 2
    /\ Cardinality(Created) = 2

\* the first invocation holds a JobRun that has not reached a final status
Polling == run.state \in {"Submitted", "Running"}

\* C13: in every reachable state an attempt has submitted at most one JobRun
\* per provider, and no two JobRuns for the same (person, provider) pair are
\* in flight at the same time.
C13_OneJobRunPerPair ==
    /\ \A p \in DOMAIN calls.submit : calls.submit[p] <= 1
    /\ ~(Polling /\ other.run = run.provider)

\* C13 as the code has it: an attempt submits at most one JobRun per provider
\* and holds at most one JobRun at a time, the one of the provider whose
\* phase is running; nothing keeps the JobRuns of two overlapping attempts
\* for the same person and provider apart.
C13_OneJobRunPerAttempt ==
    /\ \A p \in DOMAIN calls.submit : calls.submit[p] <= 1
    /\ run # NoRun => (run.provider = Provider /\ calls.submit[run.provider] = 1)
    /\ pc = "dispatch" => run = NoRun
    /\ other.run # "none" => other.run = Phases(svc)[other.phase]

C13_Witness ==
    /\ Polling
    /\ run.provider = "apollo"
    /\ other.run = "apollo"
    /\ calls.submit["apollo"] = 1

----------------------------------------------------------------------------
(* Persistence *)

\* C14: the relation link of the person is written only after the
\* persistence call of the record returned its handle, and then points to
\* that record; when the persistence write fails the attempt ends without a
\* link call and the existing link stays as it was.
C14_LinkAfterPersistence ==
    [][ /\ (link' # link \/ calls'.link # calls.link) =>
              /\ pc = "link"
              /\ Len(store) > 0 /\ store[Len(store)].fresh
              /\ link' \in {link, Len(store)}
        /\ (svc \in {"improved", "enhanced"} /\ pc = "store" /\ store' = store) =>
              (pc' = "done" /\ link' = link /\ calls'.link = 0) ]_vars

C14_Witness ==
    /\ svc = "improved"
    /\ Returned
    /\ existing = 1
    /\ Len(store) = 2
    /\ store[2].fresh
    /\ link = 2

\* C15: the enrichment store is append-only: an attempt that passes the gate
\* issues at most one record-creation call, and no step of an attempt changes
\* or removes a record that is already in the store.
C15_AppendOnly ==
    [][ /\ calls'.create <= 1
        /\ Len(store') \in {Len(store), Len(store) + 1}
        /\ \A i \in 1 .. Len(store) : store'[i] = store[i] ]_vars

C15_Witness ==
    /\ svc = "improved"
    /\ gate = "run"
    /\ existing = 1
    /\ calls.create = 1
    /\ Len(store) = 2
    /\ store[1] \in ExistingRecords
    /\ pc = "link"

----------------------------------------------------------------------------
(* Scoring inside an attempt *)

\* the providers for which the attempt submitted a job
Attempted == {p \in DOMAIN calls.submit : calls.submit[p] > 0}

\* the number of checklist fields of provider p
ChecklistSize(s, p) ==
    IF p = "connections" THEN 3 ELSE Cardinality(Checklist(s, p))

RECURSIVE SumSizes(_, _)
SumSizes(s, ps) ==
    IF ps = {} THEN 0
    ELSE LET p == CHOOSE x \in ps : TRUE IN ChecklistSize(s, p) + SumSizes(s, ps \ {p})

\* provider p delivered data to the record r
HasData(r, p) ==
    CASE p = "apollo" -> Truthy(r.apollo_data)
      [] p = "linkedin" -> Truthy(r.linkedin_data)
      [] OTHER -> r.connections > 0

\* C17: the denominator of the completeness score counts the checklist fields
\* of every provider that was attempted (dispatched), also of an attempted
\* provider that ended without data; when no provider was attempted the
\* score is 0.
C17_DenominatorCountsAttempted ==
    Scored =>
        LET t == SumSizes(svc, Attempted) IN
        rec.score = IF t = 0 THEN 0 ELSE (100 * FilledFields(svc, rec)) \div t

\* C17 as the code has it: the denominator counts the checklist fields of the
\* providers that delivered data; an attempted provider that ended without
\* data adds nothing to it, and when no provider delivered data the score
\* is 0.
C17_DenominatorCountsData ==
    Scored =>
        LET t == SumSizes(svc, {p \in DOMAIN calls.submit : HasData(rec, p)}) IN
        rec.score = IF t = 0 THEN 0 ELSE (100 * FilledFields(svc, rec)) \div t

C17_Witness ==
    /\ Scored
    /\ svc = "improved"
    /\ Attempted = {"apollo", "linkedin"}
    /\ HasData(rec, "apollo")
    /\ ~HasData(rec, "linkedin")
    /\ rec.score = 66

\* the normalized provider results of r and nothing else
NormalizedOnly(r) ==
    [NewRecord("In Progress") EXCEPT !.apollo_data = r.apollo_data,
                                     !.linkedin_data = r.linkedin_data,
                                     !.connections = r.connections,
                                     !.network = r.network]

\* the score and the confidence the service computes from r
ScoreOf(s, r) ==
    IF s = "improved" THEN _calculate_completeness(r) ELSE _calculate_enhanced_completeness(r)

ConfidenceOf(s, r) ==
    IF s = "improved" THEN _assess_data_confidence(r) ELSE _assess_enhanced_confidence(r)

\* score, confidence and status have been set
StatusSet == svc \in {"improved", "enhanced"} /\ pc = "store"

\* C18: completeness score, confidence level and status are functions of the
\* normalized provider results alone: attempts with the same normalized
\* results have the same score, confidence and status, however many polls
\* were made and however long they took, and scoring again gives the same
\* values.
C18_PureInResults ==
    StatusSet =>
        /\ rec.score = ScoreOf(svc, NormalizedOnly(rec))
        /\ rec.confidence = ConfidenceOf(svc, NormalizedOnly(rec))
        /\ rec.status = _determine_enrichment_status(NormalizedOnly(rec))
        /\ rec.score = ScoreOf(svc, rec)
        /\ rec.confidence = ConfidenceOf(svc, rec)

\* C18 as the code has it: score and confidence are functions of the
\* normalized provider results alone and the status is a function of the
\* normalized results and the error list; none of them depends on the polls,
\* and scoring again gives the same values.
C18_PureInResultsAndErrors ==
    StatusSet =>
        /\ rec.score = ScoreOf(svc, NormalizedOnly(rec))
        /\ rec.confidence = ConfidenceOf(svc, NormalizedOnly(rec))
        /\ rec.status = _determine_enrichment_status(
                            [NormalizedOnly(rec) EXCEPT !.errors = rec.errors])
        /\ rec.score = ScoreOf(svc, rec)
        /\ rec.confidence = ConfidenceOf(svc, rec)

C18_Witness ==
    /\ StatusSet
    /\ svc = "improved"
    /\ orphans = {"linkedin"}
    /\ rec.errors # <<>>
    /\ rec.confidence = "Medium"
    /\ rec.status = "Partial"

----------------------------------------------------------------------------
(* The webhook trigger *)

\* _extract_person_from_webhook has answered
Extracted == svc = "webhook" /\ pc # "start"

\* C21: the webhook processor triggers enrichment if and only if the Status
\* of the incoming page is "Working"; for every other status process_webhook
\* answers at once, submits no provider job, writes no enrichment record and
\* does not update the person's status.
C21_TriggerIffWorking ==
    Extracted =>
        /\ (outcome = "rejected") <=> (pageStatus # "Working")
        /\ (pageStatus # "Working") =>
              /\ pc = "done"
              /\ NoSubmission
              /\ calls.create = 0 /\ store = <<>>
              /\ calls.patch = 0 /\ peopleStatus = pageStatus
        /\ (pageStatus = "Working" /\ pc = "done") => calls.patch = 1

C21_Witness ==
    /\ Extracted
    /\ pageStatus = "Not Started"
    /\ outcome = "rejected"
    /\ person.email /\ person.linkedin

----------------------------------------------------------------------------
(* The relation link after two invocations *)

\* both invocations have returned, and each one that created a page wrote
\* the relation and had the write accepted
BothLinked ==
    /\ pc = "done" /\ other.pc = "done"
    /\ FirstPersisted /\ calls.linked = 1
    /\ other.page # 0 /\ other.linked

\* C22: once all attempts for a person have finished and their link writes
\* succeeded, the person's relation link points to the most recently created
\* enrichment record, whatever the interleaving of the attempts was.
C22_LinkIsMostRecent ==
    BothLinked => link = Len(store)

----------------------------------------------------------------------------
(* Providers that ended without data *)

\* the record r as it is when the phase of provider p was never entered
Without(r, p) ==
    CASE p = "apollo" -> [r EXCEPT !.apollo_data = NoneData]
      [] p = "linkedin" -> [r EXCEPT !.linkedin_data = NoneData]
      [] OTHER -> [r EXCEPT !.connections = -1, !.network = FALSE]

\* provider p was dispatched and its pipeline ended without data
EndedEmpty(p) == calls.submit[p] > 0 /\ ~HasData(rec, p)

\* C23: a provider that was dispatched and ended with no data contributes
\* nothing to the completeness score: the score is the one of the record
\* without that provider, and when the contact provider ended without data
\* and the profile provider returned data the score is computed over the
\* profile provider's checklist only.
C23_EmptyProviderNotCounted ==
    Scored =>
        /\ \A p \in DOMAIN calls.submit :
              EndedEmpty(p) => rec.score = ScoreOf(svc, Without(rec, p))
        /\ (EndedEmpty("apollo") /\ HasData(rec, "linkedin") /\ ~HasData(rec, "connections")) =>
              rec.score = Percent(Cardinality(Checklist(svc, "linkedin")
                                              \cap rec.linkedin_data.filled),
                                  Cardinality(Checklist(svc, "linkedin")))

\* the poll of the contact provider was given up and the profile provider
\* filled 3 of its checklist fields
C23_Witness ==
    /\ Scored
    /\ svc = "improved"
    /\ "apollo" \in abandoned
    /\ rec.errors = <<>>
    /\ EndedEmpty("apollo")
    /\ HasData(rec, "linkedin")
    /\ Cardinality(Checklist(svc, "linkedin") \cap rec.linkedin_data.filled) = 3
    /\ rec.score = 50

----------------------------------------------------------------------------
(* Confidence thresholds *)

\* confidence_score of the service that scored r
Points(s, r) == IF s = "improved" THEN ImprovedPoints(r) ELSE EnhancedPoints(r)

\* C24: the confidence level is High when the accumulated points are at
\* least the high threshold (70 in ImprovedEnrichmentService, 80 in
\* EnhancedApifyEnrichmentService), Medium when they are at least the medium
\* threshold (40, resp. 50) and below the high threshold, and Low otherwise.
C24_ConfidenceBuckets ==
    Scored =>
        LET pts == Points(svc, rec)
            high == IF svc = "improved" THEN 70 ELSE 80
            medium == IF svc = "improved" THEN 40 ELSE 50
        IN  /\ (rec.confidence = "High") <=> (pts >= high)
            /\ (rec.confidence = "Medium") <=> (pts >= medium /\ pts < high)
            /\ (rec.confidence = "Low") <=> (pts < medium)

\* the points are exactly on the medium threshold of the enhanced service
C24_Witness ==
    /\ Scored
    /\ svc = "enhanced"
    /\ Points(svc, rec) = 50
    /\ rec.confidence = "Medium"

----------------------------------------------------------------------------
(* Job submission and the poll loop *)

\* the step is a job-creation call for the provider of the phase that failed
\* (_run_apify_actor answered None or raised)
SubmissionFailed ==
    /\ pc = "dispatch"
    /\ calls'.submit[Provider] = calls.submit[Provider] + 1
    /\ run' = NoRun

\* C25: a failed job submission is never retried: at most one job-creation
\* call is made per provider per attempt, and after a failed submission the
\* pipeline of the provider yields no data and no status query is made.
C25_NoSubmissionRetry ==
    [][/\ \A p \in DOMAIN calls.submit : calls'.submit[p] <= 1
       /\ SubmissionFailed =>
             /\ pc' \notin {"poll", "fetch"}
             /\ ~HasData(rec', Provider)
       /\ \A p \in calls'.queried \ calls.queried :
             run.provider = p /\ run.state = "Submitted"]_vars

\* the contact submission failed with a request error, the attempt has
\* moved on, and no status request was ever sent for the provider
C25_Witness ==
    /\ calls.submit["apollo"] = 1
    /\ "apollo" \notin calls.queried
    /\ "apollo" \notin orphans
    /\ phase > 1
    /\ ~HasData(rec, "apollo")
    /\ "linkedin" \in calls.queried

\* C26: the poller fetches the result dataset only after a status query
\* observed SUCCEEDED, fetches it at most once per JobRun (the loop is left
\* right after the fetch), and a dataset is the result of the poll loop only
\* as the answer of that fetch.
C26_FetchAfterSuccess ==
    [][/\ (pc' = "fetch") =>
             /\ pc = "poll"
             /\ run'.state = "Succeeded"
             /\ run.provider \in calls'.queried
       /\ (pc = "fetch") => (pc' = "normalize" /\ run' = run)
       /\ (results'.returned = "list") =>
             (pc = "fetch" /\ run.state = "Succeeded" /\ pc' = "normalize")]_vars

\* the poll loop has returned the dataset of a run seen to have succeeded
C26_Witness ==
    /\ pc = "normalize"
    /\ run.state = "Succeeded"
    /\ HasItems(results)
    /\ run.provider \in calls.queried

\* the failure terminal states of a JobRun
FailureStates == {"Failed", "Aborted", "TimedOut"}

\* C27: on observing a failure terminal status (FAILED, ABORTED, TIMED-OUT)
\* the poller returns no data immediately: the loop is left in the pass that
\* made the observation, with no sleep, and no further status query and no
\* dataset fetch follow for the run.
C27_FailureEndsPolling ==
    [][/\ (pc = "poll" /\ run'.state \in FailureStates) =>
             /\ pc' = "normalize"
             /\ results' = NoResults
             /\ elapsed' - elapsed \in RoundTrips
       /\ (run.state \in FailureStates) =>
             /\ pc = "normalize"
             /\ pc' \notin {"poll", "fetch"}
             /\ run' = NoRun
             /\ calls' = calls
             /\ ~HasData(rec', run.provider)]_vars

\* the first status request was answered ABORTED
C27_Witness ==
    /\ pc = "normalize"
    /\ run.state = "Aborted"
    /\ results = NoResults
    /\ elapsed \in RoundTrips

\* C28: when max wait has elapsed without a terminal status having been
\* observed, the poller returns no data and sends no request for the run (no
\* cancel, no abort): the run is given up locally and the actor run is left
\* unfinished.
C28_TimeoutAbandonsLocally ==
    [][/\ (pc = "poll" /\ elapsed >= MaxWaitTime(svc)) =>
             /\ run.state \in {"Submitted", "Running"}
             /\ pc' = "normalize"
             /\ results' = NoResults
             /\ run' = JobRun(run.provider, "LocallyAbandoned")
             /\ calls' = calls
             /\ elapsed' = elapsed
       /\ (run.state = "LocallyAbandoned") =>
             /\ pc = "normalize"
             /\ calls' = calls
             /\ run.provider \in orphans'
             /\ ~HasData(rec', run.provider)]_vars

C28_Witness ==
    /\ pc = "normalize"
    /\ run.state = "LocallyAbandoned"
    /\ run.provider \in abandoned
    /\ elapsed >= MaxWaitTime(svc)
    /\ results = NoResults

\* C29: a failed status-check call ends the poll loop at once with no data:
\* the check is not retried and no later status query, fetch or submission
\* is made for the run, even if max wait has not elapsed.
C29_FailedCheckEndsPolling ==
    [][/\ (run'.checkFailed /\ ~run.checkFailed) =>
             /\ pc = "poll"
             /\ pc' = "normalize"
             /\ results' = NoResults
             /\ elapsed' - elapsed \in RoundTrips
       /\ run.checkFailed =>
             /\ pc = "normalize"
             /\ pc' \notin {"poll", "fetch"}
             /\ run' = NoRun
             /\ calls' = calls
             /\ ~HasData(rec', run.provider)]_vars

\* a status request failed after the run was seen running, before max wait
C29_Witness ==
    /\ pc = "normalize"
    /\ run.checkFailed
    /\ run.state = "Running"
    /\ elapsed < MaxWaitTime(svc)
    /\ results = NoResults

----------------------------------------------------------------------------
(* The provider phases on their own, with the scheduling of the poll loop: *)
(* the loop is sequential code of one thread, so a pass of the loop or the *)
(* dataset request that can be made is made (every request is answered     *)
(* within a round trip).                                                   *)

InitPoll ==
    /\ Init
    /\ listed
    /\ pageStatus = "Working"
    /\ store = <<>>
    /\ person.email /\ person.employer /\ person.linkedin /\ ~person.state

NextPoll ==
    \/ ResolvePerson
    \/ ExtractPerson
    \/ CheckExisting
    \/ Dispatch
    \/ Poll
    \/ Fetch
    \/ Normalize
    \/ PollRaises

SpecPoll == InitPoll /\ [][NextPoll]_vars /\ WF_vars(Poll) /\ WF_vars(Fetch)

\* _get_actor_results has returned or raised
LoopLeft == pc \in {"normalize", "raise"}

\* every poll loop that is entered is left
PollTerminates == (pc = "poll") ~> LoopLeft

\* C30: every poll loop terminates, and the time elapsed when it returns is
\* at most max wait + one poll interval + one round trip, whatever the remote
\* statuses were and whichever way the loop is left.
C30_BoundOneRoundTrip ==
    /\ [](LoopLeft => elapsed <= MaxWaitTime(svc) + SleepSeconds(svc) + RtSlow)
    /\ PollTerminates

\* C30 as the code has it: every poll loop terminates, and the time elapsed
\* when it returns is at most max wait + one poll interval + two round trips
\* (the status request and the dataset request of the last pass).
C30_BoundTwoRoundTrips ==
    /\ [](LoopLeft => elapsed <= MaxWaitTime(svc) + SleepSeconds(svc) + 2 * RtSlow)
    /\ PollTerminates

\* the last pass began before max wait, saw SUCCEEDED and fetched the
\* dataset, and the loop returned later than one round trip past the wait
C30_Witness ==
    /\ pc = "normalize"
    /\ run.state = "Succeeded"
    /\ HasItems(results)
    /\ elapsed > MaxWaitTime(svc) + SleepSeconds(svc) + RtSlow

----------------------------------------------------------------------------
(* The provider phases against actor runs whose course is given: succeedsAt *)
(* holds the time, counted from the start of the poll loop, at which the    *)
(* run reaches SUCCEEDED (no element: it never does).  A status request     *)
(* reads the state of the run at some moment between its sending and its    *)
(* answer.                                                                  *)

\* the latest time of success that leaves one poll interval and one round
\* trip before max wait
LatestInTime(s) == MaxWaitTime(s) - SleepSeconds(s) - RtSlow

SuccessTimes(s) == {0, LatestInTime(s), MaxWaitTime(s) - SleepSeconds(s), MaxWaitTime(s)}

InitRemote ==
    /\ svc \in Services
    /\ person \in PersonsOf(svc)
    /\ person.email /\ person.employer /\ person.linkedin /\ ~person.state
    /\ listed = TRUE
    /\ pageStatus = "Working"
    /\ store = <<>>
    /\ link = 0
    /\ peopleStatus = pageStatus
    /\ run = NoRun
    /\ orphans = {}
    /\ abandoned = {}
    /\ peopleDb = OnePage
    /\ cache = {}
    /\ all_people = 0
    /\ succeedsAt \in {{}} \cup {{t} : t \in SuccessTimes(svc)}
    /\ pc = "start"
    /\ phase = 1
    /\ elapsed = 0
    /\ results = NoResults
    /\ existing = 0
    /\ gate = "pending"
    /\ rec = NewRecord("Not Started")
    /\ outcome = "running"
    /\ calls = ZeroCalls
    /\ other = OtherIdle

\* a pass of the poll loop whose status answer agrees with the course of the
\* run: RUNNING only if the run had not succeeded when the request was sent,
\* SUCCEEDED only if it has when the answer arrives, a failure state only if
\* it never succeeds
PollRemote ==
    /\ Poll
    /\ (pc' = "poll") => \A t \in succeedsAt : t > elapsed
    /\ (run'.state = "Succeeded") => \E t \in succeedsAt : t <= elapsed'
    /\ (run'.state \in FailureStates) => succeedsAt = {}

NextRemote ==
    \/ ResolvePerson
    \/ ExtractPerson
    \/ CheckExisting
    \/ Dispatch
    \/ PollRemote
    \/ Fetch
    \/ Normalize
    \/ PollRaises

SpecRemote == InitRemote /\ [][NextRemote]_vars

\* the run reaches SUCCEEDED at least one poll interval plus one round trip
\* before max wait
InTime == \E t \in succeedsAt : t <= LatestInTime(svc)

\* the poll loop has returned and every request it sent was answered
AllAnswered ==
    /\ pc = "normalize"
    /\ ~run.checkFailed
    /\ ~(run.state = "Succeeded" /\ results.returned = "none")

DataOf(r, p) == IF p = "apollo" THEN r.apollo_data ELSE r.linkedin_data

\* C32: what the contact and the profile normalizer make of a dataset is
\* what they make of its first item alone, whatever follows it, and an
\* empty dataset gives no mapping and adds no error to the record.
C32_FirstElementOnly ==
    [][(pc = "normalize" /\ pc' # "normalize" /\ Provider \in {"apollo", "linkedin"}) =>
          /\ rec' = Assigned(rec, svc, Provider,
                           [results EXCEPT !.items = IF Len(@) > 0 THEN <<Head(@)>>
                                                     ELSE <<>>])
          /\ (results.returned = "list" /\ results.items = <<>>) =>
                /\ DataOf(rec', Provider).kind # "dict"
                /\ DataOf(rec', Provider).filled = {}
                /\ rec'.errors = rec.errors]_vars

\* a dataset of two different items was normalized and gave a mapping
C32_Witness ==
    /\ calls.surplus
    /\ phase = 2
    /\ pc = "dispatch"
    /\ svc = "improved"
    /\ rec.apollo_data.kind = "dict"
    /\ rec.apollo_data.filled = ProcessApollo(svc, RawApolloFull).filled
    /\ rec.apollo_data.filled # ProcessApollo(svc, LaterItem("apollo")).filled

\* canonical key <- raw key for the fields a normalizer copies, with the
\* fields that the Enhanced normalizers read with the default 'Unknown'
FieldMap(s, p) ==
    CASE s = "improved" /\ p = "apollo" -> ImprovedApolloMap
      [] s = "enhanced" /\ p = "apollo" ->
           EnhancedApolloMap \cup
           {<<"email_source", "email_source">>, <<"phone_source", "phone_source">>}
      [] s = "webhook" /\ p = "apollo" -> WebhookApolloMap
      [] s = "enhanced" /\ p = "linkedin" ->
           EnhancedLinkedInMap \cup
           {<<"post_frequency", "postFrequency">>,
            <<"influencer_score", "influencerScore">>}
      [] OTHER -> {}

\* C33: a canonical field that a normalizer copies from a raw key has a
\* value only if the selected item has that raw key; no placeholder stands
\* in for a missing key.
C33_NoPlaceholder ==
    [][(pc = "normalize" /\ pc' # "normalize" /\ HasItems(results)
        /\ Provider \in {"apollo", "linkedin"}) =>
          \A m \in FieldMap(svc, Provider) :
             m[1] \in DataOf(rec', Provider).filled =>
                m[2] \in Selected(results.items).keys]_vars

(***************************************************************************)
(* The join before scoring and merging                                     *)
(***************************************************************************)

\* C34: scoring, status, storing and merging begin when every provider
\* phase of the attempt is over, and nothing is scored or written while a
\* JobRun is held by the poll loop.
C34_JoinAfterPipelines ==
    [][/\ (\/ rec'.score # rec.score
           \/ rec'.confidence # rec.confidence
           \/ rec'.status # rec.status
           \/ store' # store
           \/ link' # link
           \/ peopleStatus' # peopleStatus
           \/ calls'.create # calls.create
           \/ calls'.link # calls.link
           \/ calls'.patch # calls.patch) =>
             (/\ run = NoRun
              /\ pc \notin {"dispatch", "poll", "fetch", "normalize", "raise"})
       /\ (pc \in {"score", "status", "store", "merge"} /\ pc' # pc) =>
             (run = NoRun /\ phase > Len(Phases(svc)))]_vars

\* both providers were run and then the record was scored
C34_Witness ==
    /\ svc = "improved"
    /\ pc = "status"
    /\ calls.submit["apollo"] = 1
    /\ calls.submit["linkedin"] = 1
    /\ {"apollo", "linkedin"} \subseteq calls.queried
    /\ rec.linkedin_data.kind = "dict"
    /\ rec.apollo_data.kind = "none"
    /\ rec.score > 0
    /\ run = NoRun

(***************************************************************************)
(* The status of the person's record after process_webhook                 *)
(***************************************************************************)

\* C35: the status that _update_people_db_status writes to the person's
\* record is the enrichment_status that process_webhook returns for the
\* attempt, whatever the outcome of the storage step.
C35_WrittenStatusIsReported ==
    [][(svc = "webhook" /\ pc = "people_status" /\ pc' = "done"
        /\ peopleStatus' # peopleStatus) =>
          peopleStatus' = rec'.status]_vars

(***************************************************************************)
(* The data sources of a record                                            *)
(***************************************************************************)

\* the providers whose label is in the record's list of data sources:
\* external_data_sources of the Enhanced record, the "Data Sources"
\* property that _store_enrichment_record builds from the Improved record
ListedProviders(s, r) ==
    IF s = "enhanced"
    THEN {p \in {"apollo", "linkedin", "connections"} :
             \E i \in 1 .. Len(r.sources) : r.sources[i] = SourceLabel(p)}
    ELSE {p \in {"apollo", "linkedin"} : HasData(r, p)}

\* C36: after the provider phases, a provider is listed as a data source of
\* the record exactly if it produced data in the attempt.
C36_SourceIffData ==
    (/\ Ran
     /\ svc \in {"improved", "enhanced"}
     /\ pc \in {"score", "status", "store", "link", "done"}) =>
        \A p \in {"apollo", "linkedin", "connections"} :
           p \in ListedProviders(svc, rec) <=> HasData(rec, p)

(***************************************************************************)
(* Building the contact-data request                                       *)
(***************************************************************************)

\* C37: for a person who qualifies for the contact provider, the request is
\* built whatever optional attributes are present: the phase adds an error
\* to the record only after it has sent a submission.
C37_BuilderNeverFails ==
    [][(pc = "dispatch" /\ Provider = "apollo" /\ Qualifies(person, "apollo")
        /\ rec'.errors # rec.errors) =>
          calls'.submit["apollo"] = calls.submit["apollo"] + 1]_vars

(***************************************************************************)
(* The listing of the People DB.  One THFIntelligence instance serves the  *)
(* calls of a service object; each call of get_all_people is followed by   *)
(* the search of the person id in the listing it returned.                 *)
(***************************************************************************)

MaxPages == 4

\* the People DBs tried: home = 0 when the person is not in the store
PeopleDbs == {d \in [pages : 1 .. MaxPages, home : 0 .. MaxPages] : d.home <= d.pages}

InitListing ==
    /\ svc = "improved"
    /\ person = [email |-> TRUE, employer |-> TRUE, linkedin |-> TRUE, name |-> 2,
                 position |-> FALSE, city |-> FALSE, state |-> FALSE]
    /\ listed = FALSE
    /\ pageStatus = "Working"
    /\ store = <<>>
    /\ link = 0
    /\ peopleStatus = pageStatus
    /\ run = NoRun
    /\ orphans = {}
    /\ abandoned = {}
    /\ succeedsAt = {}
    /\ pc = "start"
    /\ phase = 1
    /\ elapsed = 0
    /\ results = NoResults
    /\ existing = 0
    /\ gate = "pending"
    /\ rec = NewRecord("Not Started")
    /\ outcome = "running"
    /\ calls = ZeroCalls
    /\ other = OtherIdle
    /\ peopleDb \in PeopleDbs
    /\ cache = {}
    /\ all_people = 0

\* get_all_people returns a listing of n pages and the caller searches the
\* person id in it
Listing(n) ==
    /\ listed' = (peopleDb.home >= 1 /\ peopleDb.home <= n)
    /\ all_people' = 0
    /\ pc' = "start"

\* get_all_people up to the loop: a cached listing is returned at once
GetAllPeople ==
    /\ pc = "start"
    /\ IF cache # {}
       THEN /\ \E n \in cache : Listing(n)
            /\ cache' = cache
       ELSE /\ pc' = "listing"
            /\ all_people' = 0
            /\ UNCHANGED <<listed, cache>>
    /\ UNCHANGED <<svc, person, pageStatus, store, link, peopleStatus, run, orphans,
                   abandoned, succeedsAt, phase, elapsed, results, existing, gate, rec,
                   outcome, calls, other, peopleDb>>

\* one pass of the loop: the page is added and the loop goes on while
\* has_more is set; a failed request breaks the loop; what was gathered is
\* cached and returned either way
QueryPage ==
    /\ pc = "listing"
    /\ \E ok \in BOOLEAN :
         IF ok /\ all_people + 1 < peopleDb.pages
         THEN /\ all_people' = all_people + 1
              /\ UNCHANGED <<pc, listed, cache>>
         ELSE LET n == IF ok THEN all_people + 1 ELSE all_people IN
              /\ cache' = {n}
              /\ Listing(n)
    /\ UNCHANGED <<svc, person, pageStatus, store, link, peopleStatus, run, orphans,
                   abandoned, succeedsAt, phase, elapsed, results, existing, gate, rec,
                   outcome, calls, other, peopleDb>>

NextListing ==
    \/ GetAllPeople
    \/ QueryPage

SpecListing == InitListing /\ [][NextListing]_vars

\* C38: the listing that get_all_people keeps in its cache is a complete
\* one, so a call that follows a listing cut short by a failed request
\* queries the store again and finds every person the store holds.
C38_CacheIsComplete ==
    /\ \A n \in cache : n = peopleDb.pages
    /\ (pc = "start" /\ cache # {} /\ peopleDb.home >= 1) => listed

(***************************************************************************)
(* The completeness of a record whose providers delivered every field      *)
(***************************************************************************)

\* C39: a record whose data-returning providers each delivered every
\* checklist field in their raw result is scored 100.  (RawChecklist: the
\* raw keys that hold the checklist fields; FromFullRaw: the data is what
\* the normalizer makes of a raw item that has all of them.)
C39_FullDataScoresHundred ==
    LET RawChecklist(p) ==
            IF p = "apollo"
            THEN {m[2] : m \in {x \in FieldMap(svc, p) : x[1] \in Checklist(svc, p)}}
            ELSE Checklist(svc, p)
        FromFullRaw(p) ==
            \E raw \in RawSamples(p) :
               /\ RawChecklist(p) \subseteq raw.keys
               /\ DataOf(rec, p) = IF p = "apollo" THEN ProcessApollo(svc, raw)
                                   ELSE ProcessLinkedIn(svc, raw)
    IN
    (/\ Ran
     /\ svc \in {"improved", "enhanced"}
     /\ pc = "status"
     /\ HasData(rec, "apollo") \/ HasData(rec, "linkedin")
     /\ \A p \in {"apollo", "linkedin"} : HasData(rec, p) => FromFullRaw(p)) =>
        rec.score = 100

====
